---- MODULE Spec2Model ----
(***************************************************************************)
(* Position lifecycle of the VWAP-reclaim trading bot: entry batches       *)
(* (order_manager.process_entry_orders), the monitoring tick               *)
(* (position_monitor.monitor_positions), the trade ledger                  *)
(* (log_manager) and the monthly drawdown gate (risk_manager).             *)
(*                                                                         *)
(* Prices are small integers; R-values are kept in hundredths, the         *)
(* precision the ledger stores (round(r_value, 2)).                        *)
(***************************************************************************)
EXTENDS Integers, Sequences, FiniteSets, TLC

\* ------------------------------------------------------------------ bounds
NumSymbols == 2
MaxQty == 2
MaxTrades == 2
MaxMonth == 2
MaxLog == 2
MaxData == 2
MaxRuns == 2
MaxClock == 1
MaxRetries == 3
MaxFailures == 1

\* ------------------------------------------------------- program constants
MONTHLY_DD_CAP == -500
TP_MULTIPLIER == 3
RISK_PERCENT_DEN == 100
None == -1000000
EmptyDict == 0

Symbols == 1..NumSymbols
Months == 0..MaxMonth
NoTradeId == <<0, 0>>

\* ----------------------------------------------------------------- helpers
SeqToSet(s) == {s[i] : i \in 1..Len(s)}

RECURSIVE SumSeq(_)
SumSeq(s) == IF s = <<>> THEN 0 ELSE Head(s) + SumSeq(Tail(s))

\* round(num / den, 2) in hundredths, ties to even (Python 3 round()).
Round2(num, den) ==
    LET n == 100 * num
        q == n \div den
        r == n % den
    IN  IF 2 * r < den THEN q
        ELSE IF 2 * r > den THEN q + 1
        ELSE IF q % 2 = 0 THEN q ELSE q + 1

\* ------------------------------------------------------------ risk_manager
\* The month test dropped: every record of the log is summed.
get_current_month_r_all(log, now) ==
    [current_r |-> SumSeq([i \in 1..Len(log) |-> log[i].r_value]),
     trade_count |-> Len(log)]

\* get_current_month_r(): sum and count of the monthly_pnl.json records whose
\* exit_timestamp[:7] is the current month.  The code adds binary floats;
\* here the sum is exact, in hundredths, so a float sum that misses its
\* decimal value by a rounding error is not represented.
get_current_month_r(log, now) ==
    LET idx == {i \in 1..Len(log) : log[i].exit_month = now}
        vals == [i \in 1..Len(log) |-> IF i \in idx THEN log[i].r_value ELSE 0]
    IN  [current_r |-> SumSeq(vals), trade_count |-> Cardinality(idx)]

\* The comparison with the cap made strict.
can_open_new_trades_strict(log, now) ==
    LET cr == get_current_month_r(log, now).current_r
        n == get_current_month_r(log, now).trade_count
    IN  IF cr < MONTHLY_DD_CAP
        THEN [allowed |-> FALSE, current_r |-> cr, trade_count |-> None, now |-> now]
        ELSE [allowed |-> TRUE, current_r |-> cr, trade_count |-> n, now |-> now]

\* can_open_new_trades(): blocked when current_r <= MONTHLY_DD_CAP; the
\* message carries trade_count only when trading is allowed.
can_open_new_trades(log, now) ==
    LET cr == get_current_month_r(log, now).current_r
        n == get_current_month_r(log, now).trade_count
    IN  IF cr <= MONTHLY_DD_CAP
        THEN [allowed |-> FALSE, current_r |-> cr, trade_count |-> None, now |-> now]
        ELSE [allowed |-> TRUE, current_r |-> cr, trade_count |-> n, now |-> now]

\* ------------------------------------------------------------- log_manager
\* generate_trade_id(symbol, entry_timestamp)
generate_trade_id(symbol, ts) == <<symbol, ts>>

\* The record log_trade_entry appends (status OPEN, exit fields None).
TradeRecord(trade_id, symbol, entry_price, stop_loss, target_price, quantity) ==
    [trade_id |-> trade_id, symbol |-> symbol, entry_price |-> entry_price,
     stop_loss |-> stop_loss, target_price |-> target_price,
     quantity |-> quantity, status |-> "OPEN",
     exit_month |-> None, exit_price |-> None, exit_reason |-> "None",
     bars_held |-> None, pnl_per_share |-> None, pnl_total |-> None,
     r_value |-> None]

\* log_trade_entry(): append to the current month's trades.json.
log_trade_entry(led, now, rec) ==
    [led EXCEPT ![now] = Append(@, rec)]

\* update_monthly_summary(month_path): aggregates of one partition.
update_monthly_summary(trades) ==
    LET closed == {i \in 1..Len(trades) : trades[i].status = "CLOSED"}
        rs == [i \in 1..Len(trades) |->
                  IF i \in closed THEN trades[i].r_value ELSE 0]
        total == SumSeq(rs)
    IN  [trades_closed |-> Cardinality(closed),
         wins |-> Cardinality({i \in closed : trades[i].r_value > 0}),
         losses |-> Cardinality({i \in closed : trades[i].r_value <= 0}),
         total_r |-> total]

NoSummary ==
    [trades_closed |-> None, wins |-> None, losses |-> None, total_r |-> None]

\* summary.json as update_monthly_summary writes it: the aggregates of the
\* CLOSED records, the number of OPEN records, the ending equity (the
\* equity_after_trade of the trade closed last, or what get_current_equity()
\* returns now when there is none) and the time of writing.  expectancy is
\* in thousandths of R.  The cash-flow and streak fields are left out.
summary_json(trades, equity_after_trade, current_equity, now) ==
    LET s == update_monthly_summary(trades)
        open_trades == {i \in 1..Len(trades) : trades[i].status = "OPEN"}
    IN  [trades_closed |-> s.trades_closed,
         trades_open |-> Cardinality(open_trades),
         wins |-> s.wins,
         losses |-> s.losses,
         total_r |-> s.total_r,
         expectancy |-> IF s.trades_closed = 0 THEN 0
                        ELSE Round2(s.total_r, 10 * s.trades_closed),
         ending_equity |-> IF s.trades_closed > 0 /\ equity_after_trade # None
                           THEN equity_after_trade
                           ELSE current_equity,
         updated |-> now]

\* ------------------------------------------------------------ kite_retry
\* What one call of func does: it returns, or raises a requests timeout or
\* connection error, a NetworkException, another KiteException with its
\* HTTP code, or any other exception.
Outcomes ==
    {[kind |-> k, code |-> 0] :
        k \in {"ok", "Timeout", "ConnectionError", "NetworkException", "Exception"}}
    \cup {[kind |-> "KiteException", code |-> c] : c \in {403, 499, 500, 599, 600}}

NoError == [kind |-> "none", code |-> 0]

\* delays[attempt] raises IndexError.
IndexError == [kind |-> "IndexError", code |-> 0]

\* Fixed delays between retries, in tenths of a second.
delays == <<5, 10>>

\* Every server or client error of the broker is retried.
IsRetryable_any_code(e) ==
    \/ e.kind \in {"Timeout", "ConnectionError", "NetworkException"}
    \/ e.kind = "KiteException"

\* The except clauses that retry: network-level errors and 5xx codes.
IsRetryable(e) ==
    \/ e.kind \in {"Timeout", "ConnectionError", "NetworkException"}
    \/ e.kind = "KiteException" /\ 500 <= e.code /\ e.code < 600

\* One pass of the loop body of kite_retry in state r, func doing e.
kite_retry_attempt(r, e) ==
    LET called == [r EXCEPT !.calls = Append(@, e)]
    IN  IF e.kind = "ok"
        THEN [called EXCEPT !.pc = "returned"]
        ELSE IF IsRetryable(e)
        THEN IF r.attempt < r.max_retries
             THEN IF r.attempt + 1 <= Len(delays)
                  THEN [called EXCEPT !.slept = @ + delays[r.attempt + 1],
                                      !.attempt = @ + 1]
                  ELSE [called EXCEPT !.pc = "raised", !.raised = IndexError]
             ELSE [called EXCEPT !.pc = "raised", !.raised = e]
        ELSE [called EXCEPT !.pc = "raised", !.raised = e]

\* The calendar: month 0 of the model is November of the first year, so
\* that the months of the model run across a turn of the year.
FirstYear == 2025
FirstMonth == 11

\* datetime.now(ist) in month m: its year and its month of the year.
Calendar(m) ==
    [year |-> FirstYear + (m + FirstMonth - 1) \div 12,
     month |-> ((m + FirstMonth - 1) % 12) + 1]

\* get_monthly_path(date): the partition LOGS_ROOT/<year>/<month> of a date,
\* None when no such directory exists.
get_monthly_path(date) ==
    IF \E m \in Months : Calendar(m) = date
    THEN CHOOSE m \in Months : Calendar(m) = date
    ELSE None

\* The month before, computed without the January case.
prev_month_same_year(now) == [year |-> now.year, month |-> now.month - 1]

\* prev_month of log_trade_exit: December of the year before in January,
\* else the month before in the same year.
prev_month(now) ==
    IF now.month = 1
    THEN [year |-> now.year - 1, month |-> 12]
    ELSE [year |-> now.year, month |-> now.month - 1]

\* The partitions log_trade_exit searches: the current month, then the
\* previous one (when it exists and differs).
months_to_search(now) ==
    LET prev_month_path == get_monthly_path(prev_month(Calendar(now)))
    IN  IF prev_month_path # None /\ prev_month_path # now
        THEN <<now, prev_month_path>>
        ELSE <<now>>

\* The record-matching test of log_trade_exit's inner loop.
ExitMatches(trade, trade_id, symbol) ==
    IF trade_id # NoTradeId /\ trade.trade_id = trade_id THEN TRUE
    ELSE IF trade_id = NoTradeId /\ trade.symbol = symbol
            /\ trade.status = "OPEN" THEN TRUE
    ELSE FALSE

\* First (partition, index) matching, in search order; <<>> when none.
FindTrade(led, now, trade_id, symbol) ==
    LET ms == months_to_search(now)
        hit(m) == {i \in 1..Len(led[m]) : ExitMatches(led[m][i], trade_id, symbol)}
        first(m) == CHOOSE i \in hit(m) : \A j \in hit(m) : i <= j
    IN  IF hit(ms[1]) # {} THEN <<ms[1], first(ms[1])>>
        ELSE IF Len(ms) > 1 /\ hit(ms[2]) # {} THEN <<ms[2], first(ms[2])>>
        ELSE <<>>

\* The R-value computed against the exit price instead of the entry price.
CloseRecord_from_exit(trade, now, exit_price, exit_reason, bars_held) ==
    LET pnl == exit_price - trade.entry_price
        risk == exit_price - trade.stop_loss
    IN  [trade EXCEPT !.exit_month = now, !.exit_price = exit_price,
                      !.exit_reason = exit_reason, !.bars_held = bars_held,
                      !.pnl_per_share = pnl,
                      !.pnl_total = pnl * trade.quantity,
                      !.r_value = IF risk > 0 THEN Round2(pnl, risk) ELSE 0,
                      !.status = "CLOSED"]

\* The record closed without its bars_held.
CloseRecord_no_bars(trade, now, exit_price, exit_reason, bars_held) ==
    LET pnl == exit_price - trade.entry_price
        risk == trade.entry_price - trade.stop_loss
    IN  [trade EXCEPT !.exit_month = now, !.exit_price = exit_price,
                      !.exit_reason = exit_reason,
                      !.pnl_per_share = pnl,
                      !.pnl_total = pnl * trade.quantity,
                      !.r_value = IF risk > 0 THEN Round2(pnl, risk) ELSE 0,
                      !.status = "CLOSED"]

\* The exit fields log_trade_exit writes into the matched record.
CloseRecord(trade, now, exit_price, exit_reason, bars_held) ==
    LET pnl == exit_price - trade.entry_price
        risk == trade.entry_price - trade.stop_loss
    IN  [trade EXCEPT !.exit_month = now, !.exit_price = exit_price,
                      !.exit_reason = exit_reason, !.bars_held = bars_held,
                      !.pnl_per_share = pnl,
                      !.pnl_total = pnl * trade.quantity,
                      !.r_value = IF risk > 0 THEN Round2(pnl, risk) ELSE 0,
                      !.status = "CLOSED"]

\* log_trade_exit(): new ledger, new summaries and the returned R (hundredths).
log_trade_exit(led, summ, now, trade_id, symbol, exit_price, exit_reason, bars_held) ==
    LET f == FindTrade(led, now, trade_id, symbol)
    IN  IF f = <<>> THEN [ledger |-> led, summary |-> summ, r_value |-> 0, found |-> FALSE]
        ELSE LET m == f[1]
                 i == f[2]
                 rec == CloseRecord(led[m][i], now, exit_price, exit_reason, bars_held)
                 led2 == [led EXCEPT ![m][i] = rec]
             IN  [ledger |-> led2,
                  summary |-> [summ EXCEPT ![m] = update_monthly_summary(led2[m])],
                  r_value |-> rec.r_value, found |-> TRUE]

\* ----------------------------------------------------------- order_manager
\* The quantity test made strict: a quantity of 0 is returned as a size.
calculate_position_size_zero(entry_price, stop_loss, total_equity) ==
    LET risk_per_share == entry_price - stop_loss
        quantity == IF risk_per_share > 0
                    THEN total_equity \div (RISK_PERCENT_DEN * risk_per_share)
                    ELSE 0
    IN  IF risk_per_share <= 0 THEN [quantity |-> None, required_capital |-> None]
        ELSE IF quantity < 0 THEN [quantity |-> None, required_capital |-> None]
        ELSE [quantity |-> quantity, required_capital |-> entry_price * quantity]

\* calculate_position_size(): quantity = int(equity * 0.01 / risk_per_share);
\* None when the risk or the quantity is not positive.
calculate_position_size(entry_price, stop_loss, total_equity) ==
    LET risk_per_share == entry_price - stop_loss
        quantity == IF risk_per_share > 0
                    THEN total_equity \div (RISK_PERCENT_DEN * risk_per_share)
                    ELSE 0
    IN  IF risk_per_share <= 0 THEN [quantity |-> None, required_capital |-> None]
        ELSE IF quantity <= 0 THEN [quantity |-> None, required_capital |-> None]
        ELSE [quantity |-> quantity, required_capital |-> entry_price * quantity]

\* The target measured from the stop instead of the entry price.
TargetPrice_from_stop(entry_price, stop_loss) ==
    stop_loss + TP_MULTIPLIER * (entry_price - stop_loss)

\* target_price = entry_price + TP_MULTIPLIER * risk_per_share
TargetPrice(entry_price, stop_loss) ==
    entry_price + TP_MULTIPLIER * (entry_price - stop_loss)

\* What the broker answers to one order: place_order ("ok" | "err"), the
\* status of the first and the second order_history query ("ERR" = the query
\* raised), and for exits the fallback source and the price it yields.
OrderStatus == {"COMPLETE", "REJECTED", "OPEN", "ERR"}

\* The price levels of the model, chosen around the one valid signal
\* (entry 6, stop 5, target 9): far below the stop, at the stop, between
\* stop and target, at the target.
Prices == {1, 5, 6, 9}

\* The price an exit is accounted at (average_price or last_price): the
\* worst and the best fill.
FillPrices == {1, 9}

\* The entry paths that call log_trade_entry.
EntryLogs(r) ==
    /\ r.place = "ok"
    /\ \/ r.st1 \in {"COMPLETE", "ERR"}
       \/ r.st1 = "OPEN" /\ r.st2 \in {"COMPLETE", "ERR"}

\* log: whether log_trade_entry can write trades.json ("err": it raises).
EntryResponses ==
    {r \in [place : {"ok", "err"}, st1 : OrderStatus, st2 : OrderStatus,
            log : {"ok", "err"}] :
        /\ (r.place = "err" => r.st1 = "OPEN")
        /\ (r.st1 # "OPEN" \/ r.place = "err" => r.st2 = "OPEN")
        /\ (~EntryLogs(r) => r.log = "ok")}

ExitResponses ==
    {r \in [place : {"ok", "err"}, st1 : OrderStatus, st2 : OrderStatus,
            fb : {"book", "ltp", "fail"}, px : FillPrices] :
        /\ (r.place = "err" => r.st1 = "OPEN")
        /\ (r.st1 # "OPEN" \/ r.place = "err" => r.st2 = "OPEN")
        /\ (~(r.place = "ok" /\ (r.st1 = "ERR" \/ (r.st1 = "OPEN" /\ r.st2 = "ERR")))
               => r.fb = "fail")
        /\ (~(r.place = "ok" /\
               (\/ r.st1 = "COMPLETE"
                \/ (r.st1 = "OPEN" /\ r.st2 = "COMPLETE")
                \/ ((r.st1 = "ERR" \/ (r.st1 = "OPEN" /\ r.st2 = "ERR"))
                       /\ r.fb # "fail")))
               => r.px = 1)}

\* log_trade_entry inside place_entry_order.  When it raises in the inner
\* try, the inner `except Exception` calls it again; when it raises there,
\* the outer `except Exception` prints "Failed to place BUY order" and
\* returns (None, None).
EntryLogged(r) ==
    IF r.log = "ok"
    THEN [submitted |-> TRUE, ok |-> TRUE, logged |-> TRUE, log_failed |-> FALSE]
    ELSE [submitted |-> TRUE, ok |-> FALSE, logged |-> FALSE, log_failed |-> TRUE]

\* place_entry_order(): submitted = an order id was returned; ok = the
\* function returned (order_id, trade_id); logged = log_trade_entry wrote
\* the record; log_failed = log_trade_entry raised.
place_entry_order(r) ==
    LET none(submitted) == [submitted |-> submitted, ok |-> FALSE,
                            logged |-> FALSE, log_failed |-> FALSE]
    IN  IF r.place = "err" THEN none(FALSE)
        ELSE IF r.st1 = "ERR" THEN EntryLogged(r)
        ELSE IF r.st1 = "COMPLETE" THEN EntryLogged(r)
        ELSE IF r.st1 = "REJECTED" THEN none(TRUE)
        ELSE IF r.st2 = "ERR" THEN EntryLogged(r)
        ELSE IF r.st2 = "COMPLETE" THEN EntryLogged(r)
        ELSE none(TRUE)

\* The except-branch of place_exit_order: order book, then LTP, else None.
ExitFallback(r) ==
    IF r.fb = "book" THEN r.px
    ELSE IF r.fb = "ltp" THEN r.px
    ELSE None

\* The sell order was accepted and a status query raised: the except-branch.
ExitUnverified(r) ==
    /\ r.place = "ok"
    /\ (r.st1 = "ERR" \/ (r.st1 = "OPEN" /\ r.st2 = "ERR"))

\* place_exit_order(): exit_price or None.
place_exit_order(r) ==
    IF r.place = "err" THEN [submitted |-> FALSE, exit_price |-> None]
    ELSE IF r.st1 = "ERR" THEN [submitted |-> TRUE, exit_price |-> ExitFallback(r)]
    ELSE IF r.st1 = "COMPLETE" THEN [submitted |-> TRUE, exit_price |-> r.px]
    ELSE IF r.st1 = "REJECTED" THEN [submitted |-> TRUE, exit_price |-> None]
    ELSE IF r.st2 = "ERR" THEN [submitted |-> TRUE, exit_price |-> ExitFallback(r)]
    ELSE IF r.st2 = "COMPLETE" THEN [submitted |-> TRUE, exit_price |-> r.px]
    ELSE [submitted |-> TRUE, exit_price |-> None]

\* Python truthiness of `if exit_price:`
Truthy(x) == x # None /\ x # 0

\* ------------------------------------------------------- the JSON "tables"
\* open_positions.json: ok = the file parses; data = the dict, in key order.
CacheEntry(symbol, trade_id, entry_price, stop_loss, quantity) ==
    [symbol |-> symbol, trade_id |-> trade_id, entry_price |-> entry_price,
     stop_loss |-> stop_loss,
     target_price |-> TargetPrice(entry_price, stop_loss),
     quantity |-> quantity]

CacheSymbols(data) == {data[i].symbol : i \in 1..Len(data)}

\* cache[symbol] = entry on a dict: replace in place, else append.
CachePut(data, e) ==
    IF e.symbol \in CacheSymbols(data)
    THEN [i \in 1..Len(data) |-> IF data[i].symbol = e.symbol THEN e ELSE data[i]]
    ELSE Append(data, e)

\* del cache[symbol] for every symbol of rm.
CacheRemove(data, rm) == SelectSeq(data, LAMBDA e : e.symbol \notin rm)

\* open(path, 'w') + json.dump: the file is truncated first, so a process
\* killed inside the write leaves an empty or partial, unparsable file.
Committed(data) == [ok |-> TRUE, data |-> data]
TornFile == [ok |-> FALSE, data |-> <<>>]
JsonDump(data, w) == IF w = "ok" THEN Committed(data) ELSE TornFile
WriteOutcome == {"ok", "killed"}

\* --------------------------------------------------------------- json_utils
\* A path: its name without the suffix, and the suffix.
SIGNALS_OUTPUT == [stem |-> "entry_signals", suffix |-> ".json"]
WATCHLIST_INPUT == [stem |-> "reclaim_watchlist", suffix |-> ".json"]

\* The temporary file written over the final path itself.
with_suffix_same(path, suffix) == path

\* Path.with_suffix(): the same name with another suffix.
with_suffix(path, suffix) == [path EXCEPT !.suffix = suffix]

\* The files of the directory: the two paths of entry_checker and the
\* temporary sibling atomic_json_write uses.
Paths == {SIGNALS_OUTPUT, with_suffix(SIGNALS_OUTPUT, ".tmp"), WATCHLIST_INPUT}

\* The documents written and read, as numbers.
JsonValues == 1..MaxData

\* A file: kind "missing" | "json" (parses, to `data`) | "malformed" (text
\* that is no JSON document: an empty or partly written dump of `data`) |
\* "undecodable" (bytes that are no UTF-8 text) | "unreadable" (open()
\* raises an OSError).
File(kind, data) == [kind |-> kind, data |-> data]
NoFile == File("missing", 0)
NoFiles == [p \in Paths |-> NoFile]

\* The except-branch of atomic_json_write with the temporary file left behind.
CleanUp_kept(files, temp_path) == files

\* The except-branch of atomic_json_write: `if temp_path.exists():
\* temp_path.unlink()`.
CleanUp(files, temp_path) ==
    IF files[temp_path].kind # "missing"
    THEN [files EXCEPT ![temp_path] = NoFile]
    ELSE files

\* `default if default is not None else {}`
OrEmptyDict(default) == IF default # None THEN default ELSE EmptyDict

\* safe_json_read(): default for a missing file; the parsed document; default
\* when open() raises an OSError or json.load a JSONDecodeError.  The bytes
\* of an undecodable file make f.read() raise UnicodeDecodeError, a
\* ValueError that the except clause does not name.
safe_json_read(file, default) ==
    IF file.kind = "missing"
    THEN [outcome |-> "default", data |-> OrEmptyDict(default)]
    ELSE IF file.kind = "json"
    THEN [outcome |-> "parsed", data |-> file.data]
    ELSE IF file.kind \in {"malformed", "unreadable"}
    THEN [outcome |-> "default", data |-> OrEmptyDict(default)]
    ELSE [outcome |-> "raised", data |-> None]

\* -------------------------------------------------------- position_monitor
\* calculate_bars_held(entry_timestamp): the hourly bars between entry and
\* now; the clock is not part of the model, every exit is one bar.
calculate_bars_held == 1

\* The two tests in the other order: target first, stop second.
exit_decision_target_first(ltp, stop_loss, target_price) ==
    IF ltp >= target_price THEN "TP"
    ELSE IF ltp <= stop_loss THEN "SL"
    ELSE "none"

\* The SL / TP test of monitor_positions: `if ltp <= stop_loss` comes first,
\* `elif ltp >= target_price` second.
exit_decision(ltp, stop_loss, target_price) ==
    IF ltp <= stop_loss THEN "SL"
    ELSE IF ltp >= target_price THEN "TP"
    ELSE "none"

\* current_holdings: holdings with quantity > 0, overridden by the day
\* positions with quantity > 0; 0 stands for "symbol not in the dict".
CurrentHoldings(holdings, day_positions) ==
    [s \in DOMAIN holdings |->
        IF day_positions[s] > 0 THEN day_positions[s]
        ELSE IF holdings[s] > 0 THEN holdings[s]
        ELSE 0]

NoQuote == 0

\* ------------------------------------------------------------------ inputs
\* entry_signals.json: the symbols in key order (distinct, a JSON object).
SignalOrders ==
    {q \in UNION {[1..n -> Symbols] : n \in 0..NumSymbols} :
        \A i, j \in 1..Len(q) : i # j => q[i] # q[j]}

\* One signal record as written by entry_checker (entry_price, reclaim_low).
SignalChoices ==
    [entry_price : {6}, reclaim_low : {1, 5, 6}]

\* monthly_pnl.json: the records' exit month and R-value (hundredths): a loss
\* of exactly the cap, a loss one R above it, a small win.
RChoices == {MONTHLY_DD_CAP, MONTHLY_DD_CAP + 100, 100}

LogChoices ==
    UNION {[1..n -> [exit_month : Months, r_value : RChoices]] : n \in 0..MaxLog}

\* The arguments of calculate_position_size: prices below, at and above
\* each other, and equities from none to the one of the worked example.
SizePrices == {90, 95, 100, 105}
SizeEquities == {0, 400, 499, 500, 1000, 1999, 50000, 500000}

\* The trades logged on their own: entry 100 with the stop below it (risk
\* 5, and 3 for an R that needs rounding), at it and above it; exits at a
\* loss, at a small gain and at a gain.
LedgerStops == {95, 97, 100, 105}
LedgerExits == {90, 101, 110}

\* The trades.json partitions as found: up to MaxTrades trades of one share,
\* entry 100 and stop 95, logged in the order of their ids in months that
\* do not go back, each still OPEN or closed at 110 in its own month.
LedgerPlans ==
    {q \in UNION {[1..n -> [symbol : Symbols, month : Months, closed : BOOLEAN]] :
                     n \in 0..MaxTrades} :
        \A i, j \in 1..Len(q) : i < j => q[i].month <= q[j].month}

PlannedRecord(q, i) ==
    LET rec == TradeRecord(generate_trade_id(q[i].symbol, i), q[i].symbol,
                           100, 95, TargetPrice(100, 95), 1)
    IN  IF q[i].closed
        THEN CloseRecord(rec, q[i].month, 110, "TP", calculate_bars_held)
        ELSE rec

PlannedLedger(q) ==
    [m \in Months |->
        LET here == SelectSeq([i \in 1..Len(q) |-> i], LAMBDA i : q[i].month = m)
        IN  [k \in 1..Len(here) |-> PlannedRecord(q, here[k])]]

\* summary.json of every partition that has a CLOSED record.
PlannedSummary(led) ==
    [m \in Months |->
        IF \E i \in 1..Len(led[m]) : led[m][i].status = "CLOSED"
        THEN update_monthly_summary(led[m])
        ELSE NoSummary]

\* (total_equity, available_margin) as returned by get_total_equity.
EquityChoices ==
    [total_equity : {200}, available_margin : {6, 12}]

\* ------------------------------------------------------------------- state
VARIABLES
    cacheFile,           \* main/open_positions.json
    ledger,              \* logs/<year>/<month>/trades.json, per month
    summary,             \* logs/<year>/<month>/summary.json, per month
    monthlyLog,          \* main/monthly_pnl.json (read by risk_manager)
    month,               \* the current calendar month
    pc,                  \* "idle" | "batch" | "tick": what main is running
    signals,             \* process_entry_orders: the signal symbols, in order
    batch_i,             \* process_entry_orders: loop position
    existing_positions,  \* process_entry_orders: symbols treated as open
    total_equity,        \* process_entry_orders
    available_margin,    \* process_entry_orders
    cache,               \* monitor_positions: the loaded cache
    tick_i,              \* monitor_positions: loop position
    current_holdings,    \* monitor_positions: broker quantity per symbol
    positions_to_remove, \* monitor_positions
    batchResult,         \* how the last process_entry_orders run ended
    last_entry,          \* what the last loop iteration of the batch did
    tickResult,          \* how the last monitor_positions run ended
    last_tick,           \* what the last loop iteration of the tick did
    buy_orders,          \* number of BUY orders submitted to the broker so far
    sold,                \* trades for which a SELL order has been submitted
    gate,                \* process_entry_orders: what can_open_new_trades returned
    fs,                  \* json_utils: the file at file_path and its .tmp sibling
    aw,                  \* json_utils.atomic_json_write: position, argument, outcome
    readResult,          \* json_utils.safe_json_read: what the last call did
    sizing,              \* calculate_position_size: the last call and its result
    last_exit,           \* log_trade_exit called on its own: arguments, returned R
    report,              \* update_monthly_summary called on its own: summary.json
    retry,               \* kite_retry: loop position, calls of func, outcome
    broker,              \* the broker fetches of the last batch or tick
    order_call,          \* place_entry_order / place_exit_order: position, broker calls
    notice,              \* telegram_notifier: the last notification and how it ended
    loop                 \* main(): the scheduling loop

vars == <<cacheFile, ledger, summary, monthlyLog, month, pc, signals, batch_i,
          existing_positions, total_equity, available_margin, cache, tick_i,
          current_holdings, positions_to_remove, batchResult, last_entry,
          tickResult, last_tick, buy_orders, sold, gate, fs, aw, readResult,
          sizing, last_exit, report, retry, broker, order_call, notice, loop>>

disk == <<cacheFile, ledger, summary, monthlyLog>>
batchLocals == <<signals, batch_i, existing_positions, total_equity, available_margin>>
tickLocals == <<cache, tick_i, current_holdings, positions_to_remove>>
history == <<buy_orders, sold>>
jsonStore == <<fs, aw, readResult>>
runtime == <<order_call, notice, loop>>
library == <<sizing, last_exit, report, retry, runtime>>

\* What one iteration of the entry loop did.  was_open: the symbol had an
\* entry in open_positions.json when the iteration began.
BatchEntry(symbol, was_open, outcome, submitted, st1, st2, trade_id, required) ==
    [symbol |-> symbol, was_open |-> was_open, outcome |-> outcome,
     submitted |-> submitted, st1 |-> st1, st2 |-> st2,
     trade_id |-> trade_id, required |-> required]

NoEntry == BatchEntry(0, FALSE, "none", FALSE, "OPEN", "OPEN", NoTradeId, 0)

\* What one iteration of the monitor loop did.  le_stop / ge_target: how the
\* live price compared with the cached stop and target.
\* resell: a SELL had already been submitted for the same trade before.
\* unverified: the SELL was accepted and its status could not be queried.
TickEntry(symbol, held, le_stop, ge_target, reason, submitted, resell, exit_price, closed, decided, raised, unverified) ==
    [symbol |-> symbol, held |-> held, le_stop |-> le_stop,
     ge_target |-> ge_target, reason |-> reason, submitted |-> submitted,
     resell |-> resell, exit_price |-> exit_price, closed |-> closed,
     decided |-> decided, raised |-> raised, unverified |-> unverified]

NoTick ==
    TickEntry(0, FALSE, FALSE, FALSE, "none", FALSE, FALSE, None, FALSE, FALSE, FALSE, FALSE)

NoBatchLocals ==
    /\ signals' = <<>>
    /\ batch_i' = 0
    /\ existing_positions' = {}
    /\ total_equity' = 0
    /\ available_margin' = 0

NoTickLocals ==
    /\ cache' = <<>>
    /\ tick_i' = 0
    /\ current_holdings' = <<>>
    /\ positions_to_remove' = {}

\* No can_open_new_trades call yet.
NoGate == [allowed |-> TRUE, current_r |-> None, trade_count |-> None, now |-> None]

\* atomic_json_write is not running: pc is its position, data the document
\* being written, old the final file as the call found it, at the step that
\* raised.
NoWrite == [pc |-> "idle", data |-> 0, old |-> NoFile, at |-> "none"]

\* safe_json_read has not been called; else the file it found, the default
\* it was given and what it did.
NoRead == [outcome |-> "none", data |-> 0, file |-> NoFile, default |-> None]

\* calculate_position_size has not been called.
NoSizing == [called |-> FALSE, entry_price |-> 0, stop_loss |-> 0, total_equity |-> 0, quantity |-> None, required_capital |-> None]

\* log_trade_exit has not been called on its own.
NoExit == [called |-> FALSE, trade_id |-> NoTradeId, symbol |-> 0, exit_price |-> None, exit_reason |-> "None", bars_held |-> None, now |-> None, r_value |-> None]

\* update_monthly_summary has not been called on its own: the wall clock,
\* the number of runs, the partition the last run read, summary.json as the
\* last run wrote it and as it was before that run.
NoReport ==
    [clock |-> 0, runs |-> 0, trades |-> <<>>, equity_after_trade |-> None,
     summary |-> NoSummary, before |-> NoSummary]

\* A fetch whose failure is not noticed.
broker_call_unchecked(failures) ==
    [fetched |-> TRUE, failures |-> failures, attempts |-> 1, ok |-> TRUE]

\* A broker fetch as process_entry_orders and monitor_positions make it: the
\* kite method is called directly, once, inside try/except.  failures is the
\* number of calls the broker answers with a transient network error before
\* it answers.
broker_call(failures) ==
    [fetched |-> TRUE, failures |-> failures, attempts |-> 1, ok |-> failures = 0]

\* No broker fetch was made.
NoBroker == [fetched |-> FALSE, failures |-> 0, attempts |-> 0, ok |-> FALSE]

\* kite_retry is not running.
NoRetry ==
    [pc |-> "idle", max_retries |-> 0, attempt |-> 0, calls |-> <<>>,
     slept |-> 0, raised |-> NoError]

\* Neither place_entry_order nor place_exit_order has been called: the
\* function, its arguments, the calls made to the broker (place_order,
\* order_history, orders, quote), the seconds slept and what was returned.
NoOrderCall ==
    [fn |-> "none", pc |-> "idle", symbol |-> 0, quantity |-> 0, placed |-> 0,
     order_history |-> 0, orders |-> 0, quote |-> 0, slept |-> 0,
     status |-> "none", result |-> "none"]

\* No notification has been sent.
NoNotice ==
    [called |-> FALSE, message |-> "none",
     outcome |-> [kind |-> "none", status_code |-> 0], raised |-> FALSE,
     returned |-> None, printed |-> FALSE]

\* main() has not been started.
NoLoop ==
    [pc |-> "off", start_time |-> 0, now |-> 0, scanner_completed |-> {},
     entry_order_completed |-> {}, scan_i |-> 0, entry_i |-> 0,
     last_position_check |-> 0, child |-> "none", launched |-> "none",
     child_ok |-> TRUE, monitoring |-> FALSE, last_monitor |-> "none",
     recovered |-> FALSE, late |-> FALSE, checker_runs |-> <<>>,
     order_runs |-> <<>>]

\* The state of a freshly started process over the given files, with the
\* ledger and its summaries as found, in month `now`.
StartedAt(file, led, summ, orders, now) ==
    /\ cacheFile = file
    /\ ledger = led
    /\ summary = summ
    /\ month = now
    /\ gate = NoGate
    /\ aw = NoWrite
    /\ readResult = NoRead
    /\ sizing = NoSizing
    /\ last_exit = NoExit
    /\ report = NoReport
    /\ retry = NoRetry
    /\ broker = NoBroker
    /\ order_call = NoOrderCall
    /\ notice = NoNotice
    /\ loop = NoLoop
    /\ pc = "idle"
    /\ signals = <<>>
    /\ batch_i = 0
    /\ existing_positions = {}
    /\ total_equity = 0
    /\ available_margin = 0
    /\ cache = <<>>
    /\ tick_i = 0
    /\ current_holdings = <<>>
    /\ positions_to_remove = {}
    /\ batchResult = "none"
    /\ last_entry = NoEntry
    /\ tickResult = "none"
    /\ last_tick = NoTick
    /\ buy_orders = orders
    /\ sold = {}

NoLedger == [m \in Months |-> <<>>]

\* The process starts in month 0 with no summary.json written yet.
Started(file, led, orders) ==
    StartedAt(file, led, [m \in Months |-> NoSummary], orders, 0)

\* monthly_pnl.json and the json_utils file as found at start-up.
Stores(log, files) ==
    /\ monthlyLog = log
    /\ fs = files

\* First installation: no cache file, no ledger, no other file.
Init == Started(Committed(<<>>), NoLedger, 0) /\ Stores(<<>>, NoFiles)

\* ------------------------------------------ process_entry_orders (batch)
\* The duplicate check dropped from the loop.
IsDuplicate_unchecked(symbol, existing) == FALSE

\* `if symbol in existing_positions` (the duplicate check of the loop).
IsDuplicate(symbol, existing) == symbol \in existing

\* process_entry_orders() up to the loop: the drawdown gate, the signals,
\* the open positions, the equity.  Every early return ends the run here.
EntryStart ==
    /\ pc = "idle"
    /\ gate' = can_open_new_trades(monthlyLog, month)
    /\ UNCHANGED <<jsonStore, library>>
    /\ last_entry' = NoEntry
    /\ tickResult' = "none"
    /\ last_tick' = NoTick
    /\ NoTickLocals
    /\ UNCHANGED <<disk, month, history>>
    /\ IF ~can_open_new_trades(monthlyLog, month).allowed
       THEN /\ batchResult' = "blocked"
            /\ broker' = NoBroker
            /\ NoBatchLocals /\ pc' = "idle"
       ELSE \E sigs \in SignalOrders :
          /\ buy_orders + Cardinality(SeqToSet(sigs) \ CacheSymbols(cacheFile.data))
                <= MaxTrades
          /\ IF sigs = <<>>
             THEN /\ batchResult' = "no_signals"
                  /\ broker' = NoBroker
                  /\ NoBatchLocals /\ pc' = "idle"
             ELSE IF ~cacheFile.ok
             THEN /\ batchResult' = "load_error"
                  /\ broker' = NoBroker
                  /\ NoBatchLocals /\ pc' = "idle"
             ELSE \E failures \in 0..MaxFailures :
                  /\ broker' = broker_call(failures)
                  /\ IF ~broker_call(failures).ok
                     THEN /\ batchResult' = "equity_error"
                          /\ NoBatchLocals /\ pc' = "idle"
                     ELSE \E eq \in EquityChoices :
                          /\ batchResult' = "running"
                          /\ signals' = sigs
                          /\ batch_i' = 1
                          /\ existing_positions' = CacheSymbols(cacheFile.data)
                          /\ total_equity' = eq.total_equity
                          /\ available_margin' = eq.available_margin
                          /\ pc' = "batch"

\* One iteration of `for symbol, signal_data in signals.items()`.
EntrySymbol ==
    /\ pc = "batch"
    /\ batch_i <= Len(signals)
    /\ UNCHANGED <<gate, jsonStore, library, broker>>
    /\ UNCHANGED <<summary, monthlyLog, month, tickLocals, tickResult, last_tick,
                   sold>>
    /\ LET symbol == signals[batch_i]
           was_open == symbol \in CacheSymbols(cacheFile.data)
           skip(why) ==
               /\ last_entry' = BatchEntry(symbol, was_open, why, FALSE,
                                           "OPEN", "OPEN", NoTradeId, 0)
               /\ batch_i' = batch_i + 1
               /\ UNCHANGED <<cacheFile, ledger, pc, existing_positions,
                              available_margin, batchResult, buy_orders,
                              signals, total_equity>>
       IN  IF IsDuplicate(symbol, existing_positions) THEN skip("duplicate")
           ELSE \E sig \in SignalChoices :
             LET entry_price == sig.entry_price
                 stop_loss == sig.reclaim_low
                 size == calculate_position_size(entry_price, stop_loss, total_equity)
             IN  IF size.quantity = None THEN skip("sizing")
                 ELSE IF size.required_capital > available_margin THEN skip("margin")
                 ELSE \E r \in EntryResponses, w \in WriteOutcome :
                   LET res == place_entry_order(r)
                       trade_id == generate_trade_id(symbol, buy_orders + 1)
                       rec == TradeRecord(trade_id, symbol, entry_price, stop_loss,
                                          TargetPrice(entry_price, stop_loss),
                                          size.quantity)
                       entry == CacheEntry(symbol, trade_id, entry_price,
                                           stop_loss, size.quantity)
                   IN  /\ (~res.ok => w = "ok")
                       /\ buy_orders' =
                             IF res.submitted THEN buy_orders + 1 ELSE buy_orders
                       /\ ledger' = IF res.logged
                                    THEN log_trade_entry(ledger, month, rec)
                                    ELSE ledger
                       /\ last_entry' =
                             BatchEntry(symbol, was_open,
                                        IF res.ok THEN "entered"
                                        ELSE IF res.log_failed THEN "unlogged"
                                        ELSE "failed",
                                        res.submitted, r.st1, r.st2, trade_id,
                                        size.required_capital)
                       /\ IF res.ok
                          THEN \* add_to_positions_cache, then the bookkeeping
                               /\ cacheFile' = JsonDump(CachePut(cacheFile.data, entry), w)
                               /\ IF w = "ok"
                                  THEN /\ existing_positions' = existing_positions \cup {symbol}
                                       /\ available_margin' = available_margin - size.required_capital
                                       /\ batch_i' = batch_i + 1
                                       /\ UNCHANGED <<pc, batchResult, signals,
                                                      total_equity>>
                                  ELSE /\ NoBatchLocals
                                       /\ pc' = "idle"
                                       /\ batchResult' = "none"
                          ELSE /\ batch_i' = batch_i + 1
                               /\ UNCHANGED <<cacheFile, pc, existing_positions,
                                              available_margin, batchResult,
                                              signals, total_equity>>

\* The loop is exhausted: process_entry_orders returns.
EntryEnd ==
    /\ pc = "batch"
    /\ batch_i > Len(signals)
    /\ UNCHANGED <<gate, jsonStore, library, broker>>
    /\ pc' = "idle"
    /\ batchResult' = "done"
    /\ last_entry' = NoEntry
    /\ NoBatchLocals
    /\ UNCHANGED <<disk, month, tickLocals, tickResult, last_tick, history>>

\* The quantity correction made only while new entries are allowed.
ReconcileQuantity_capped(pos, actual_quantity) ==
    IF actual_quantity # pos.quantity
          /\ can_open_new_trades(monthlyLog, month).allowed
    THEN [pos EXCEPT !.quantity = actual_quantity]
    ELSE pos

\* ------------------------------------------------ monitor_positions (tick)
\* `if actual_quantity != cached_quantity`: the cache takes the broker's value.
ReconcileQuantity(pos, actual_quantity) ==
    IF actual_quantity # pos.quantity
    THEN [pos EXCEPT !.quantity = actual_quantity]
    ELSE pos

\* monitor_positions() up to the loop: load the cache, fetch holdings, day
\* positions and quotes.  A failed fetch returns; an unparsable cache raises.
TickStart ==
    /\ pc = "idle"
    /\ batchResult' = "none"
    /\ UNCHANGED <<gate, jsonStore, library>>
    /\ last_entry' = NoEntry
    /\ last_tick' = NoTick
    /\ UNCHANGED <<disk, month, batchLocals, history>>
    /\ IF ~cacheFile.ok
       THEN /\ pc' = "idle" /\ tickResult' = "load_error" /\ NoTickLocals
            /\ broker' = NoBroker
       ELSE IF cacheFile.data = <<>>
       THEN /\ pc' = "idle" /\ tickResult' = "empty" /\ NoTickLocals
            /\ broker' = NoBroker
       ELSE \E failures \in 0..MaxFailures :
            /\ broker' = broker_call(failures)
            /\ IF ~broker_call(failures).ok
               THEN /\ pc' = "idle" /\ tickResult' = "fetch_error" /\ NoTickLocals
               ELSE \E holdings \in [CacheSymbols(cacheFile.data) -> 0..MaxQty],
                       day_positions \in [CacheSymbols(cacheFile.data) -> 0..MaxQty] :
                       /\ cache' = cacheFile.data
                       /\ current_holdings' = CurrentHoldings(holdings, day_positions)
                       /\ positions_to_remove' = {}
                       /\ tick_i' = 1
                       /\ tickResult' = "running"
                       /\ pc' = "tick"

\* One iteration of `for symbol, pos_data in cache.items()`.
TickSymbol ==
    /\ pc = "tick"
    /\ tick_i <= Len(cache)
    /\ UNCHANGED <<gate, jsonStore, library, broker>>
    /\ UNCHANGED <<monthlyLog, month, batchLocals, batchResult, last_entry,
                   buy_orders, current_holdings>>
    /\ LET pos0 == cache[tick_i]
           symbol == pos0.symbol
           actual_quantity == current_holdings[symbol]
           pos == ReconcileQuantity(pos0, actual_quantity)
           cache2 == [cache EXCEPT ![tick_i] = pos]
           next(entry, rm) ==
               /\ last_tick' = entry
               /\ positions_to_remove' = positions_to_remove \cup rm
               /\ tick_i' = tick_i + 1
               /\ cache' = cache2
               /\ UNCHANGED <<pc, tickResult>>
       IN  IF actual_quantity = 0
           THEN \* not in current_holdings: drop from the cache, no ledger action
                /\ next(TickEntry(symbol, FALSE, FALSE, FALSE, "none", FALSE, FALSE,
                                  None, FALSE, TRUE, FALSE, FALSE), {symbol})
                /\ UNCHANGED <<cacheFile, ledger, summary, sold>>
           ELSE \E w \in WriteOutcome :
             /\ (pos = pos0 => w = "ok")
             /\ IF w = "killed"
                THEN \* killed inside the save of the corrected quantity
                     /\ cacheFile' = TornFile
                     /\ pc' = "idle"
                     /\ tickResult' = "none"
                     /\ last_tick' = NoTick
                     /\ cache' = <<>>
                     /\ tick_i' = 0
                     /\ positions_to_remove' = {}
                     /\ UNCHANGED <<ledger, summary, sold>>
                ELSE \E ltp \in Prices \cup {NoQuote} :
                  LET file2 == IF pos = pos0 THEN cacheFile ELSE Committed(cache2)
                      le_stop == ltp # NoQuote /\ ltp <= pos.stop_loss
                      ge_target == ltp # NoQuote /\ ltp >= pos.target_price
                      reason == IF ltp = NoQuote THEN "none"
                                ELSE exit_decision(ltp, pos.stop_loss, pos.target_price)
                  IN  IF reason = "none"
                      THEN /\ next(TickEntry(symbol, TRUE, le_stop, ge_target, "none",
                                             FALSE, FALSE, None, FALSE, FALSE, FALSE, FALSE), {})
                           /\ cacheFile' = file2
                           /\ UNCHANGED <<ledger, summary, sold>>
                      ELSE \E r \in ExitResponses, io \in {"ok", "err"} :
                        LET res == place_exit_order(r)
                            resell == res.submitted /\ pos.trade_id \in sold
                            x == log_trade_exit(ledger, summary, month, pos.trade_id,
                                                symbol, res.exit_price, reason,
                                                calculate_bars_held)
                        IN  /\ (~Truthy(res.exit_price) => io = "ok")
                            /\ cacheFile' = file2
                            /\ sold' = IF res.submitted THEN sold \cup {pos.trade_id}
                                       ELSE sold
                            /\ IF ~Truthy(res.exit_price)
                               THEN /\ next(TickEntry(symbol, TRUE, le_stop, ge_target,
                                               reason, res.submitted, resell, res.exit_price,
                                               FALSE, FALSE, FALSE, ExitUnverified(r)), {})
                                    /\ UNCHANGED <<ledger, summary>>
                               ELSE IF io = "err"
                               THEN \* log_trade_exit raised (trades.json unreadable):
                                    \* nothing inside the loop catches it, so
                                    \* monitor_positions is left at this point
                                    /\ last_tick' =
                                          TickEntry(symbol, TRUE, le_stop, ge_target,
                                               reason, res.submitted, resell, res.exit_price,
                                               FALSE, FALSE, TRUE, ExitUnverified(r))
                                    /\ pc' = "idle"
                                    /\ tickResult' = "aborted"
                                    /\ cache' = cache2
                                    /\ UNCHANGED <<ledger, summary, tick_i,
                                                   positions_to_remove>>
                               ELSE /\ ledger' = x.ledger
                                    /\ summary' = x.summary
                                    /\ next(TickEntry(symbol, TRUE, le_stop, ge_target,
                                               reason, res.submitted, resell, res.exit_price,
                                               x.found, TRUE, FALSE, ExitUnverified(r)), {symbol})

\* After the loop: `if positions_to_remove:` delete them and save the cache.
TickEnd ==
    /\ pc = "tick"
    /\ tick_i > Len(cache)
    /\ UNCHANGED <<gate, jsonStore, library, broker>>
    /\ pc' = "idle"
    /\ last_tick' = NoTick
    /\ NoTickLocals
    /\ UNCHANGED <<ledger, summary, monthlyLog, month, batchLocals, batchResult,
                   last_entry, history>>
    /\ IF positions_to_remove = {}
       THEN /\ tickResult' = "done"
            /\ UNCHANGED cacheFile
       ELSE \E w \in WriteOutcome :
            /\ cacheFile' = JsonDump(CacheRemove(cache, positions_to_remove), w)
            /\ tickResult' = IF w = "ok" THEN "done" ELSE "none"

\* ------------------------------------------------------------- environment
\* The process is killed while a batch or a tick is running (outside a write).
Kill ==
    /\ pc # "idle"
    /\ pc' = "idle"
    /\ UNCHANGED <<gate, jsonStore, library, broker>>
    /\ batchResult' = "none"
    /\ tickResult' = "none"
    /\ last_entry' = NoEntry
    /\ last_tick' = NoTick
    /\ NoBatchLocals
    /\ NoTickLocals
    /\ UNCHANGED <<disk, month, history>>

\* The calendar month changes between two runs (not part of Spec, which
\* stays within one month).
NextMonth ==
    /\ pc = "idle"
    /\ month < MaxMonth
    /\ UNCHANGED <<gate, jsonStore, library, broker>>
    /\ month' = month + 1
    /\ UNCHANGED <<disk, pc, batchLocals, tickLocals, batchResult, last_entry,
                   tickResult, last_tick, history>>

Next ==
    \/ EntryStart
    \/ EntrySymbol
    \/ EntryEnd
    \/ TickStart
    \/ TickSymbol
    \/ TickEnd
    \/ Kill

\* The whole program from first installation, within one calendar month.
Spec == Init /\ [][Next]_vars

\* ---------------------------------------------- the entry batch on its own
\* open_positions.json and the ledger as earlier batches and ticks leave
\* them: positions from verified entries (entry 6, stop 5, sized 2), the
\* cached quantity possibly corrected by the monitor.
OpenBook(syms, qty) ==
    [file |-> Committed([i \in 1..Len(syms) |->
                 CacheEntry(syms[i], generate_trade_id(syms[i], i), 6, 5, qty[i])]),
     led |-> [NoLedger EXCEPT ![0] = [i \in 1..Len(syms) |->
                 TradeRecord(generate_trade_id(syms[i], i), syms[i], 6, 5,
                             TargetPrice(6, 5), 2)]]]

InitEntry ==
    \E syms \in SignalOrders :
        /\ Len(syms) <= MaxTrades
        /\ \E qty \in [1..Len(syms) -> 1..MaxQty] :
              /\ Started(OpenBook(syms, qty).file, OpenBook(syms, qty).led, Len(syms))
              /\ Stores(<<>>, NoFiles)

NextEntry ==
    \/ EntryStart
    \/ EntrySymbol
    \/ EntryEnd

SpecEntry == InitEntry /\ [][NextEntry]_vars

\* --------------------------------------------- the monitor tick on its own
\* monitor_positions() started on a cache file with one position whose stop
\* and target are any two price levels (the monitor does not validate them).
InitMonitor ==
    \E s \in Symbols, stop \in Prices, target \in Prices, q \in 1..MaxQty :
      /\ Stores(<<>>, NoFiles)
      /\ Started(Committed(<<[symbol |-> s, trade_id |-> generate_trade_id(s, 1),
                             entry_price |-> 6, stop_loss |-> stop,
                             target_price |-> target, quantity |-> q]>>),
                [NoLedger EXCEPT ![0] =
                    <<TradeRecord(generate_trade_id(s, 1), s, 6, stop, target, q)>>],
                1)

NextMonitor ==
    \/ TickStart
    \/ TickSymbol
    \/ TickEnd

SpecMonitor == InitMonitor /\ [][NextMonitor]_vars

\* --------------------------------------- calculate_position_size on its own
\* Every action of the library functions leaves the trading state alone.
TradingUnchanged ==
    UNCHANGED <<cacheFile, ledger, summary, monthlyLog, month, pc, batchLocals,
                tickLocals, batchResult, last_entry, tickResult, last_tick,
                history, gate, jsonStore, broker, runtime>>

\* One call of calculate_position_size(entry_price, stop_loss, total_equity).
SizeCall ==
    /\ TradingUnchanged
    /\ UNCHANGED <<last_exit, report, retry>>
    /\ \E entry_price \in SizePrices, stop_loss \in SizePrices,
          equity \in SizeEquities :
          sizing' = [called |-> TRUE, entry_price |-> entry_price,
                     stop_loss |-> stop_loss, total_equity |-> equity,
                     quantity |-> calculate_position_size(entry_price, stop_loss,
                                                          equity).quantity,
                     required_capital |->
                         calculate_position_size(entry_price, stop_loss,
                                                 equity).required_capital]

InitSize == Started(Committed(<<>>), NoLedger, 0) /\ Stores(<<>>, NoFiles)

NextSize == SizeCall

SpecSize == InitSize /\ [][NextSize]_vars

\* ------------------------------------------------ the ledger on its own
\* The number of records in all partitions.
LedgerCount == SumSeq([i \in 1..(MaxMonth + 1) |-> Len(ledger[i - 1])])

\* The trade ids in the ledger, each with the symbol of its record.
LedgerIds ==
    UNION {{<<ledger[m][i].trade_id, ledger[m][i].symbol>> :
               i \in 1..Len(ledger[m])} : m \in Months}

\* The arguments of a call: the id and the symbol of a logged trade, an id
\* that was never logged, or no id and a symbol.
ExitArguments ==
    LedgerIds \cup {<<t, s>> : t \in {NoTradeId, generate_trade_id(1, 0)},
                               s \in Symbols}

\* What the ledger actions leave alone.
LedgerOnly ==
    UNCHANGED <<cacheFile, monthlyLog, pc, batchLocals, tickLocals, batchResult,
                last_entry, tickResult, last_tick, history, gate, jsonStore,
                sizing, report, retry, broker, runtime>>

\* log_trade_entry() for a new trade of one share, in the current month.
LogEntry ==
    /\ LedgerCount < MaxTrades
    /\ LedgerOnly
    /\ UNCHANGED <<summary, month, last_exit>>
    /\ \E symbol \in Symbols :
          ledger' = log_trade_entry(ledger, month,
                       TradeRecord(generate_trade_id(symbol, LedgerCount + 1),
                                   symbol, 100, 95, TargetPrice(100, 95), 1))

\* One call of log_trade_exit().
LogExit ==
    /\ ~last_exit.called
    /\ LedgerOnly
    /\ UNCHANGED month
    /\ \E a \in ExitArguments, exit_price \in LedgerExits,
          exit_reason \in {"SL", "TP"} :
          LET x == log_trade_exit(ledger, summary, month, a[1], a[2],
                                  exit_price, exit_reason, calculate_bars_held)
          IN  /\ ledger' = x.ledger
              /\ summary' = x.summary
              /\ last_exit' = [called |-> TRUE, trade_id |-> a[1],
                               symbol |-> a[2], exit_price |-> exit_price,
                               exit_reason |-> exit_reason,
                               bars_held |-> calculate_bars_held, now |-> month,
                               r_value |-> x.r_value]

InitLedger ==
    \E q \in LedgerPlans, now \in Months :
        /\ \A i \in 1..Len(q) : q[i].month <= now
        /\ StartedAt(Committed(<<>>), PlannedLedger(q),
                     PlannedSummary(PlannedLedger(q)), 0, now)
        /\ Stores(<<>>, NoFiles)

NextLedger ==
    \/ LogEntry
    \/ LogExit
    \/ NextMonth

SpecLedger == InitLedger /\ [][NextLedger]_vars

\* ---------------------------------------------- one close on its own
\* log_trade_exit() on a ledger with one OPEN trade of this month: entry
\* 100, any of the stops, any quantity.
InitClose ==
    \E stop_loss \in LedgerStops, quantity \in 1..MaxQty, symbol \in Symbols :
        /\ Started(Committed(<<>>),
                   log_trade_entry(NoLedger, 0,
                       TradeRecord(generate_trade_id(symbol, 1), symbol, 100,
                                   stop_loss, TargetPrice(100, stop_loss),
                                   quantity)),
                   0)
        /\ Stores(<<>>, NoFiles)

NextClose == LogExit

SpecClose == InitClose /\ [][NextClose]_vars

\* ------------------------------------ update_monthly_summary on its own
\* What get_current_equity() may return: the broker's equity, or None when
\* the broker call fails.
CurrentEquities == {None, 200, 210}

\* The wall clock advances.
ClockTick ==
    /\ report.clock < MaxClock
    /\ report' = [report EXCEPT !.clock = @ + 1]
    /\ TradingUnchanged
    /\ UNCHANGED <<sizing, last_exit, retry>>

\* One run of update_monthly_summary() on the current month's partition,
\* when its trades.json exists.  The equity_after_trade of the trade closed
\* last is part of the partition: it is drawn at the first run and is the
\* same at every later one.
UpdateSummary ==
    /\ report.runs < MaxRuns
    /\ ledger[month] # <<>>
    /\ TradingUnchanged
    /\ UNCHANGED <<sizing, last_exit, retry>>
    /\ \E current_equity \in CurrentEquities,
          equity_after_trade \in IF report.runs = 0 THEN {None, 200}
                                 ELSE {report.equity_after_trade} :
          report' = [report EXCEPT
                        !.runs = @ + 1,
                        !.trades = ledger[month],
                        !.equity_after_trade = equity_after_trade,
                        !.before = report.summary,
                        !.summary = summary_json(ledger[month], equity_after_trade,
                                                 current_equity, report.clock)]

NextSummary ==
    \/ UpdateSummary
    \/ ClockTick

SpecSummary == InitLedger /\ [][NextSummary]_vars

\* ------------------------------------------------- kite_retry on its own
\* kite_retry(func, max_retries = n) is called.
RetryCall ==
    /\ retry.pc = "idle"
    /\ \E n \in 0..MaxRetries :
          retry' = [NoRetry EXCEPT !.pc = "running", !.max_retries = n]
    /\ TradingUnchanged
    /\ UNCHANGED <<sizing, last_exit, report>>

\* One pass of the loop: func is called and returns or raises.
RetryAttempt ==
    /\ retry.pc = "running"
    /\ \E e \in Outcomes : retry' = kite_retry_attempt(retry, e)
    /\ TradingUnchanged
    /\ UNCHANGED <<sizing, last_exit, report>>

InitRetry == Started(Committed(<<>>), NoLedger, 0) /\ Stores(<<>>, NoFiles)

NextRetry ==
    \/ RetryCall
    \/ RetryAttempt

SpecRetry == InitRetry /\ [][NextRetry]_vars

\* ------------------------------------------------ json_utils on its own
\* The positions of atomic_json_write inside the try block.
Writing == {"open", "dump", "flush", "fsync", "replace"}

\* The step at aw.pc raised: the except-branch cleans up and raises IOError.
RaiseIOError ==
    /\ fs' = CleanUp(fs, with_suffix(SIGNALS_OUTPUT, ".tmp"))
    /\ aw' = [aw EXCEPT !.pc = "raised", !.at = aw.pc]

\* Every action of json_utils leaves the trading state alone.
JsonOnly ==
    UNCHANGED <<cacheFile, ledger, summary, monthlyLog, month, pc, batchLocals,
                tickLocals, batchResult, last_entry, tickResult, last_tick,
                history, gate, library, broker>>

\* atomic_json_write(SIGNALS_OUTPUT, data) is called: mkdir of the parent
\* (outside the try block), then temp_path is computed.
AtomicCall ==
    /\ aw.pc \notin Writing
    /\ JsonOnly
    /\ UNCHANGED <<fs, readResult>>
    /\ \E data \in JsonValues, io \in {"ok", "err"} :
          aw' = [pc |-> IF io = "ok" THEN "open" ELSE "mkdir_raised",
                 data |-> data, old |-> fs[SIGNALS_OUTPUT], at |-> "none"]

\* open(temp_path, 'w'): the temporary file is created or truncated.
AtomicOpen ==
    /\ aw.pc = "open"
    /\ JsonOnly
    /\ UNCHANGED readResult
    /\ \/ /\ fs' = [fs EXCEPT ![with_suffix(SIGNALS_OUTPUT, ".tmp")]
                                   = File("malformed", aw.data)]
          /\ aw' = [aw EXCEPT !.pc = "dump"]
       \/ RaiseIOError

\* json.dump(data, f): the text goes to the buffer of f; an object that
\* cannot be serialised raises part-way.
AtomicDump ==
    /\ aw.pc = "dump"
    /\ JsonOnly
    /\ UNCHANGED readResult
    /\ \/ /\ aw' = [aw EXCEPT !.pc = "flush"]
          /\ UNCHANGED fs
       \/ RaiseIOError

\* f.flush(): the whole text is in the temporary file.
AtomicFlush ==
    /\ aw.pc = "flush"
    /\ JsonOnly
    /\ UNCHANGED readResult
    /\ \/ /\ fs' = [fs EXCEPT ![with_suffix(SIGNALS_OUTPUT, ".tmp")]
                                   = File("json", aw.data)]
          /\ aw' = [aw EXCEPT !.pc = "fsync"]
       \/ RaiseIOError

\* os.fsync(f.fileno()), and the file is closed.
AtomicFsync ==
    /\ aw.pc = "fsync"
    /\ JsonOnly
    /\ UNCHANGED readResult
    /\ \/ /\ aw' = [aw EXCEPT !.pc = "replace"]
          /\ UNCHANGED fs
       \/ RaiseIOError

\* temp_path.replace(file_path): the rename, then the return.
AtomicReplace ==
    /\ aw.pc = "replace"
    /\ JsonOnly
    /\ UNCHANGED readResult
    /\ \/ /\ fs' = [p \in Paths |->
                      IF p = SIGNALS_OUTPUT
                      THEN fs[with_suffix(SIGNALS_OUTPUT, ".tmp")]
                      ELSE IF p = with_suffix(SIGNALS_OUTPUT, ".tmp")
                      THEN NoFile ELSE fs[p]]
          /\ aw' = [aw EXCEPT !.pc = "returned"]
       \/ RaiseIOError

\* The process is killed inside atomic_json_write: the files stay as they are.
Crash ==
    /\ aw.pc \in Writing
    /\ JsonOnly
    /\ UNCHANGED <<fs, readResult>>
    /\ aw' = [aw EXCEPT !.pc = "crashed"]

\* The values a caller passes as default.
Defaults == JsonValues \cup {None}

\* safe_json_read(path, default) on one of the two files of entry_checker.
SafeRead ==
    /\ JsonOnly
    /\ UNCHANGED <<fs, aw>>
    /\ \E p \in {SIGNALS_OUTPUT, WATCHLIST_INPUT}, default \in Defaults :
          readResult' = [outcome |-> safe_json_read(fs[p], default).outcome,
                         data |-> safe_json_read(fs[p], default).data,
                         file |-> fs[p], default |-> default]

\* What the files can hold at start-up: entry_signals.json missing or
\* committed, a temporary file left by a killed writer, and a watchlist of
\* any kind (it is written by another script).
FileChoices ==
    {f \in [Paths -> {File(k, d) : k \in {"missing", "json", "malformed",
                                          "undecodable", "unreadable"},
                                   d \in 0..MaxData}] :
        /\ f[SIGNALS_OUTPUT].kind \in {"missing", "json"}
        /\ f[with_suffix(SIGNALS_OUTPUT, ".tmp")].kind \in {"missing", "malformed"}
        /\ \A p \in Paths : f[p].data = 0 <=> f[p].kind \notin {"json", "malformed"}}

InitJson ==
    \E files \in FileChoices :
        /\ Started(Committed(<<>>), NoLedger, 0)
        /\ Stores(<<>>, files)

NextJson ==
    \/ AtomicCall
    \/ AtomicOpen
    \/ AtomicDump
    \/ AtomicFlush
    \/ AtomicFsync
    \/ AtomicReplace
    \/ Crash
    \/ SafeRead

SpecJson == InitJson /\ [][NextJson]_vars

\* ------------------------------- the monitor tick, below and above the cap
\* monthly_pnl.json is empty, or holds one loss of this month that reaches
\* the cap.
CapLogs == {<<>>, <<[exit_month |-> 0, r_value |-> MONTHLY_DD_CAP]>>}

\* monitor_positions() started on one open position, with either log.
InitCap ==
    \E s \in Symbols, stop \in Prices, target \in Prices, q \in 1..MaxQty,
       log \in CapLogs :
      /\ Stores(log, NoFiles)
      /\ Started(Committed(<<[symbol |-> s, trade_id |-> generate_trade_id(s, 1),
                             entry_price |-> 6, stop_loss |-> stop,
                             target_price |-> target, quantity |-> q]>>),
                [NoLedger EXCEPT ![0] =
                    <<TradeRecord(generate_trade_id(s, 1), s, 6, stop, target, q)>>],
                1)

NextCap ==
    \/ TickStart
    \/ TickSymbol
    \/ TickEnd

SpecCap == InitCap /\ [][NextCap]_vars

\* ------------------------------------------- the drawdown gate on its own
\* process_entry_orders() started on any monthly_pnl.json, in any month.
InitGate ==
    \E log \in LogChoices :
        /\ Started(Committed(<<>>), NoLedger, 0)
        /\ Stores(log, NoFiles)

NextGate ==
    \/ EntryStart
    \/ NextMonth

SpecGate == InitGate /\ [][NextGate]_vars

\* ================================================================== claims
\* The R-multiples (hundredths) of the ledger's CLOSED records whose exit
\* falls in month `now`, summed over the partitions 0..m.
RECURSIVE ClosedMonthR(_, _, _)
ClosedMonthR(led, now, m) ==
    IF m < 0 THEN 0
    ELSE SumSeq([i \in 1..Len(led[m]) |->
                    IF led[m][i].status = "CLOSED" /\ led[m][i].exit_month = now
                    THEN led[m][i].r_value ELSE 0])
         + ClosedMonthR(led, now, m - 1)

\* C1: while the R-multiples of the trades closed in the current month sum
\* to a value <= the drawdown cap, no process_entry_orders() run gets as far
\* as a candidate: it submits no buy order and adds nothing to the ledger
\* or the cache.
C1_GateFollowsLedger ==
    ClosedMonthR(ledger, month, MaxMonth) <= MONTHLY_DD_CAP
        => /\ pc # "batch"
           /\ ~last_entry.submitted
           /\ last_entry.outcome # "entered"

\* The status of an accepted entry order could not be confirmed COMPLETE and
\* was not REJECTED: a status query raised, or the order was still
\* non-terminal after the recheck.
Unconfirmed(e) ==
    /\ e.submitted
    /\ \/ e.st1 = "ERR"
       \/ e.st1 = "OPEN" /\ e.st2 \in {"ERR", "OPEN"}

\* C2: an accepted entry order whose status could not be confirmed COMPLETE
\* (and was not REJECTED) is recorded in the ledger, and the caller adds it
\* to the open-position cache.
C2_AcceptedEntryRecorded ==
    Unconfirmed(last_entry)
        => /\ \E i \in 1..Len(ledger[month]) :
                 ledger[month][i].trade_id = last_entry.trade_id
           /\ cacheFile.ok =>
                 \E i \in 1..Len(cacheFile.data) :
                     cacheFile.data[i].trade_id = last_entry.trade_id

\* C3: over any sequence of ticks at most one sell order is submitted per
\* open position: no tick submits a sell for a trade for which a sell had
\* been submitted before.
C3_OneSellPerPosition == ~last_tick.resell

\* C4: a failure while processing one symbol does not abort the tick: the
\* symbols after it are still processed in the same invocation, and the
\* removals decided for earlier symbols are persisted.
C4_FailureIsolated ==
    tickResult = "aborted"
        => /\ tick_i >= Len(cache)
           /\ positions_to_remove \cap CacheSymbols(cacheFile.data) = {}

\* C5: a crash at any point of a tick or an entry batch, the middle of a
\* cache write included, leaves open_positions.json a complete committed
\* value (the previous one or the new one), which the monitor can load.
C5_CacheSurvivesCrash == cacheFile.ok

\* C6: close is idempotent per trade id: once a ledger record is CLOSED no
\* later log_trade_exit call changes it (exit price, exit month, reason, R);
\* a record is mutated exactly once, at its close.
C6_ClosedRecordFrozen ==
    [][\A m \in Months : \A i \in 1..Len(ledger[m]) :
          ledger[m][i].status = "CLOSED" => ledger'[m][i] = ledger[m][i]]_vars

\* C7: a candidate whose symbol is in open_positions.json when its iteration
\* begins (cached at batch start, or entered earlier in the batch) is skipped:
\* no buy order, no ledger record, no cache change; and each success is in
\* the cache before the next candidate is examined.
C7_NoDuplicateBuy ==
    /\ [][(/\ pc = "batch"
           /\ batch_i <= Len(signals)
           /\ signals[batch_i] \in CacheSymbols(cacheFile.data))
             => /\ buy_orders' = buy_orders
                /\ ledger' = ledger
                /\ cacheFile' = cacheFile]_vars
    /\ [](last_entry.was_open
             => ~last_entry.submitted /\ last_entry.outcome = "duplicate")
    /\ [](last_entry.outcome = "entered" /\ cacheFile.ok
             => last_entry.symbol \in CacheSymbols(cacheFile.data))

\* A candidate already in the cache has just been skipped as a duplicate.
C7_Witness ==
    /\ last_entry.was_open
    /\ last_entry.outcome = "duplicate"
    /\ last_entry.symbol \in CacheSymbols(cacheFile.data)

\* The loop of the tick is over: it ran to its end, or an exception left it.
TickOver ==
    \/ pc = "tick" /\ tick_i > Len(cache)
    \/ tickResult = "aborted"

\* C8: after a tick whose broker fetches succeeded, every symbol remaining
\* in the persisted cache has the quantity the broker reported in that tick.
C8_CacheQuantityIsBrokers ==
    TickOver /\ cacheFile.ok
        => \A i \in 1..Len(cacheFile.data) :
              cacheFile.data[i].symbol \notin positions_to_remove
                 => cacheFile.data[i].quantity
                       = current_holdings[cacheFile.data[i].symbol]

\* C9: in a tick, a held symbol has its ledger record closed and is dropped
\* from the cache if and only if its price breached stop or target, an exit
\* order was submitted and the exit returned a price.
C9_CloseIffExitPrice ==
    last_tick.held
        => ((last_tick.closed /\ last_tick.decided)
               <=> /\ last_tick.le_stop \/ last_tick.ge_target
                   /\ last_tick.submitted
                   /\ Truthy(last_tick.exit_price))

\* C10: stop takes priority over target: with ltp <= stop_loss the exit
\* attempted is the stop exit, never the target exit, also when
\* ltp >= target_price holds too; with stop_loss < ltp < target_price no
\* exit is attempted.
C10_StopBeforeTarget ==
    /\ last_tick.le_stop => last_tick.reason = "SL"
    /\ last_tick.reason = "TP" => last_tick.ge_target /\ ~last_tick.le_stop
    /\ ~last_tick.le_stop /\ ~last_tick.ge_target
          => last_tick.reason = "none" /\ ~last_tick.submitted
    /\ last_tick.submitted => last_tick.reason \in {"SL", "TP"}

\* The price is at or below the stop and at or above the target, and the
\* stop exit has been submitted.
C10_Witness ==
    /\ last_tick.le_stop
    /\ last_tick.ge_target
    /\ last_tick.reason = "SL"
    /\ last_tick.submitted

\* C11: a cached symbol the broker reports with positive quantity in neither
\* holdings nor day positions is dropped from the cache by the tick, with no
\* order submitted and the ledger untouched (its record stays OPEN).
C11_UnheldDropped ==
    [][/\ (/\ pc = "tick"
           /\ tick_i <= Len(cache)
           /\ current_holdings[cache[tick_i].symbol] = 0)
             => /\ ledger' = ledger
                /\ sold' = sold
                /\ ~last_tick'.submitted
       /\ (pc = "tick" /\ pc' = "idle" /\ tickResult' \in {"done", "aborted"})
             => \A s \in CacheSymbols(cacheFile'.data) : current_holdings[s] # 0]_vars

\* The broker reported the entry order COMPLETE, on the first status check
\* or on the recheck.
Completed(e) ==
    /\ e.submitted
    /\ (e.st1 = "COMPLETE" \/ (e.st1 = "OPEN" /\ e.st2 = "COMPLETE"))

\* The trade of batch iteration e has an OPEN ledger record / a cache entry.
InLedger(e) ==
    \E i \in 1..Len(ledger[month]) :
        /\ ledger[month][i].trade_id = e.trade_id
        /\ ledger[month][i].status = "OPEN"

InCache(e) ==
    \E i \in 1..Len(cacheFile.data) : cacheFile.data[i].trade_id = e.trade_id

\* C12: a confirmed fill is never silently dropped: when the broker reported
\* the entry COMPLETE and process_entry_orders goes on after that symbol (no
\* failure was raised to its caller), the ledger holds an OPEN record for the
\* trade and the cache holds the position.
C12_ConfirmedFillKept ==
    Completed(last_entry) /\ pc = "batch"
        => InLedger(last_entry) /\ InCache(last_entry)

\* The broker reported the entry order REJECTED.
Rejected(e) ==
    /\ e.submitted
    /\ (e.st1 = "REJECTED" \/ (e.st1 = "OPEN" /\ e.st2 = "REJECTED"))

\* C13: an iteration whose order the broker reports COMPLETE (first or second
\* check) leaves an OPEN ledger record and a cache entry for the trade and
\* takes the capital from the margin; one whose order is REJECTED leaves
\* ledger, cache and margin as they were.
C13_CompleteRecordedRejectedNot ==
    [][(pc = "batch" /\ batch_i' = batch_i + 1)
          => /\ Completed(last_entry')
                  => /\ \E i \in 1..Len(ledger'[month]) :
                          /\ ledger'[month][i].trade_id = last_entry'.trade_id
                          /\ ledger'[month][i].status = "OPEN"
                     /\ \E i \in 1..Len(cacheFile'.data) :
                          cacheFile'.data[i].trade_id = last_entry'.trade_id
                     /\ available_margin' = available_margin - last_entry'.required
             /\ Rejected(last_entry')
                  => /\ ledger' = ledger
                     /\ cacheFile' = cacheFile
                     /\ available_margin' = available_margin]_vars

\* C14: when the sell order was accepted and its execution cannot be
\* verified, place_exit_order returns an approximate exit price, never None,
\* so the caller can close the ledger record and release the position.
C14_UnverifiedExitHasPrice ==
    last_tick.unverified => Truthy(last_tick.exit_price)

\* The records of monthly_pnl.json whose exit lies in month `now`.
MonthRecords(log, now) == SelectSeq(log, LAMBDA t : t.exit_month = now)

\* The R-values of a sequence of records, summed.
RSum(recs) == SumSeq([i \in 1..Len(recs) |-> recs[i].r_value])

\* C15: can_open_new_trades() returns allowed = false if and only if the R
\* sum of the current month is <= the cap: a sum equal to the cap is
\* blocked, a sum one R above it is allowed; a blocked batch ends there.
C15_BlockedIffAtOrBelowCap ==
    gate.now # None
        => LET sum == RSum(MonthRecords(monthlyLog, gate.now))
           IN  /\ gate.allowed <=> sum > MONTHLY_DD_CAP
               /\ sum = MONTHLY_DD_CAP => ~gate.allowed
               /\ sum = MONTHLY_DD_CAP + 100 => gate.allowed
               /\ ~gate.allowed => batchResult = "blocked" /\ pc = "idle"

\* The gate was called with an R sum exactly equal to the cap, and blocked.
C15_Witness ==
    /\ gate.now # None
    /\ RSum(MonthRecords(monthlyLog, gate.now)) = MONTHLY_DD_CAP
    /\ ~gate.allowed
    /\ batchResult = "blocked"

\* C16: get_current_month_r() returns the sum and the count of exactly the
\* records whose exit lies in the current month; records of other months
\* never contribute, so a log without a record of the current month never
\* blocks.
C16_OnlyCurrentMonthCounts ==
    gate.now # None
        => LET recs == MonthRecords(monthlyLog, gate.now)
           IN  /\ gate.current_r = RSum(recs)
               /\ gate.allowed => gate.trade_count = Len(recs)
               /\ recs = <<>> => gate.allowed /\ gate.current_r = 0

\* The records of month 0 breach the cap; the gate, called in month 1,
\* allows trading.
C16_Witness ==
    /\ gate.now = 1
    /\ gate.allowed
    /\ RSum(MonthRecords(monthlyLog, 0)) <= MONTHLY_DD_CAP

\* New entries are blocked: the R sum of the month is at or below the cap.
Capped == ~can_open_new_trades(monthlyLog, month).allowed

\* One iteration of the monitor loop has been made in this step.
TickStepped ==
    /\ pc = "tick"
    /\ tick_i <= Len(cache)
    /\ tick_i' = tick_i + 1 \/ tickResult' = "aborted"

\* C17: the drawdown cap never affects monitoring.  What an iteration of
\* monitor_positions() does is one function of the cache entry, the broker's
\* holdings, the quote and the broker's answers, whether or not the R sum
\* is at or below the cap: the quantity is reconciled to the broker's, the
\* exit chosen is the one the price calls for, the order submitted is
\* remembered, and the ledger record is closed exactly when the exit
\* returned a price and the ledger write did not fail.
C17_CapNeverAffectsMonitoring ==
    [][TickStepped
         => LET pos0 == cache[tick_i]
                q == current_holdings[pos0.symbol]
                e == last_tick'
            IN  /\ e.symbol = pos0.symbol
                /\ e.held <=> q # 0
                /\ e.held => cache'[tick_i].quantity = q
                /\ e.held /\ cacheFile'.ok
                      => \A i \in 1..Len(cacheFile'.data) :
                            cacheFile'.data[i].symbol = pos0.symbol
                               => cacheFile'.data[i].quantity = q
                /\ e.reason = (IF e.le_stop THEN "SL"
                               ELSE IF e.ge_target THEN "TP" ELSE "none")
                /\ e.submitted => e.held /\ e.reason # "none"
                /\ sold' = (IF e.submitted THEN sold \cup {pos0.trade_id} ELSE sold)
                /\ e.closed <=> e.held /\ Truthy(e.exit_price) /\ ~e.raised
                /\ ~e.closed => ledger' = ledger
                /\ e.closed
                      => \E i \in 1..Len(ledger'[month]) :
                            /\ ledger'[month][i].trade_id = pos0.trade_id
                            /\ ledger'[month][i].status = "CLOSED"
                            /\ ledger'[month][i].exit_price = e.exit_price]_vars

\* At or below the cap, an iteration corrected the cached quantity,
\* submitted the exit and closed the ledger record.
C17_Witness ==
    /\ Capped
    /\ last_tick.held /\ last_tick.submitted /\ last_tick.closed
    /\ cacheFile.ok
    /\ \E i \in 1..Len(cacheFile.data) :
          /\ cacheFile.data[i].symbol = last_tick.symbol
          /\ \E k \in 1..Len(ledger[month]) :
                /\ ledger[month][k].trade_id = cacheFile.data[i].trade_id
                /\ ledger[month][k].quantity # cacheFile.data[i].quantity
          /\ cacheFile.data[i].quantity = current_holdings[last_tick.symbol]

\* The temporary sibling of entry_signals.json.
TempPath == with_suffix(SIGNALS_OUTPUT, ".tmp")

\* C18: at every point during and after atomic_json_write, a kill at any
\* step before the rename included, the final path holds the complete old
\* content or the complete new content; before the rename it is the old
\* content, untouched; after a successful return it is the new content.
C18_OldOrNewNeverPartial ==
    aw.pc # "idle"
        => /\ fs[SIGNALS_OUTPUT] \in {aw.old, File("json", aw.data)}
           /\ aw.pc \in Writing \cup {"crashed", "raised", "mkdir_raised"}
                 => fs[SIGNALS_OUTPUT] = aw.old
           /\ aw.pc = "returned" => fs[SIGNALS_OUTPUT] = File("json", aw.data)

\* The writer was killed with a partly written temporary file: the final
\* path still holds the old document, which differs from the new one.
C18_Witness ==
    /\ aw.pc = "crashed"
    /\ fs[TempPath] = File("malformed", aw.data)
    /\ aw.old.kind = "json"
    /\ aw.old.data # aw.data
    /\ fs[SIGNALS_OUTPUT] = aw.old

\* C19: when a step of atomic_json_write up to and including the rename
\* fails, the temporary file is removed, the final file is what it was
\* before the call, and the call ends by raising IOError, never by
\* returning.
C19_FailureCleansUpAndRaises ==
    /\ aw.pc = "raised"
          => /\ fs[TempPath] = NoFile
             /\ fs[SIGNALS_OUTPUT] = aw.old
             /\ aw.at \in Writing
    /\ aw.at # "none" => aw.pc = "raised"

\* The rename failed on a complete temporary file; IOError was raised over
\* an existing final file.
C19_Witness ==
    /\ aw.pc = "raised"
    /\ aw.at = "replace"
    /\ aw.old.kind = "json"
    /\ aw.old.data # aw.data

\* C20: safe_json_read never raises for a missing, unreadable or malformed
\* file; it returns the parsed content when the file parses and the
\* caller's default otherwise.
C20_ReadNeverRaises ==
    readResult.outcome # "none"
        => /\ readResult.outcome # "raised"
           /\ readResult.file.kind = "json"
                 => readResult.outcome = "parsed"
                    /\ readResult.data = readResult.file.data
           /\ readResult.file.kind # "json" /\ readResult.default # None
                 => readResult.outcome = "default"
                    /\ readResult.data = readResult.default

\* C21: calculate_position_size returns quantity = floor(equity * 0.01 /
\* (entry - stop)) when entry - stop > 0 and that quantity is > 0, and no
\* size when entry - stop <= 0 or the quantity is <= 0; entry 100, stop 95,
\* equity 500000 gives 1000, and entry 100, stop 100 gives no size.
C21_SizeIsFloorOfRiskOverRiskPerShare ==
    sizing.called
        => LET risk == sizing.entry_price - sizing.stop_loss
               q == sizing.quantity
           IN  /\ q # None
                     => /\ risk > 0 /\ q > 0
                        /\ q * risk * RISK_PERCENT_DEN <= sizing.total_equity
                        /\ sizing.total_equity < (q + 1) * risk * RISK_PERCENT_DEN
                        /\ sizing.required_capital = sizing.entry_price * q
               /\ q = None
                     => /\ risk <= 0 \/ sizing.total_equity < risk * RISK_PERCENT_DEN
                        /\ sizing.required_capital = None
               /\ (sizing.entry_price = 100 /\ sizing.stop_loss = 95
                      /\ sizing.total_equity = 500000) => q = 1000
               /\ sizing.entry_price = sizing.stop_loss => q = None

\* The worked example has been computed: 1000 shares.
C21_Witness ==
    /\ sizing.called
    /\ sizing.entry_price = 100 /\ sizing.stop_loss = 95
    /\ sizing.total_equity = 500000
    /\ sizing.quantity = 1000

\* The capital of the previous iteration's order when the broker filled it
\* and process_entry_orders did not take it from available_margin.
Unbooked(e) == IF Completed(e) /\ e.outcome # "entered" THEN e.required ELSE 0

ExitStep == ~last_exit.called /\ last_exit'.called

\* The records of partition m a call e matches: by trade id when one is
\* given, otherwise by symbol with status OPEN.
ExitHits(led, m, e) ==
    {i \in 1..Len(led[m]) :
        IF e.trade_id # NoTradeId
        THEN led[m][i].trade_id = e.trade_id
        ELSE led[m][i].symbol = e.symbol /\ led[m][i].status = "OPEN"}

\* The record a call e is to close: the first match of the current month,
\* else the first match of the month before; <<>> when there is none.
ExitTarget(led, e) ==
    LET first(m) == CHOOSE i \in ExitHits(led, m, e) :
                       \A j \in ExitHits(led, m, e) : i <= j
    IN  IF ExitHits(led, e.now, e) # {} THEN <<e.now, first(e.now)>>
        ELSE IF e.now >= 1 /\ ExitHits(led, e.now - 1, e) # {}
        THEN <<e.now - 1, first(e.now - 1)>>
        ELSE <<>>

\* C23: log_trade_exit finds the record by trade id when one is given,
\* otherwise by symbol with status OPEN, in the current month's partition
\* first and then in the partition of the month before (December of the
\* year before, in January); the record found is closed where it lies, and
\* no other record is modified.
C23_ExitFoundAcrossMonthBoundary ==
    [][ExitStep
         => LET e == last_exit'
                t == ExitTarget(ledger, e)
            IN  /\ \A m \in Months :
                      /\ Len(ledger'[m]) = Len(ledger[m])
                      /\ \A i \in 1..Len(ledger[m]) :
                            <<m, i>> # t => ledger'[m][i] = ledger[m][i]
                /\ t # <<>>
                      => LET old == ledger[t[1]][t[2]]
                             new == ledger'[t[1]][t[2]]
                         IN  /\ new.status = "CLOSED"
                             /\ new.exit_price = e.exit_price
                             /\ new.exit_reason = e.exit_reason
                             /\ new.exit_month = e.now
                             /\ new.trade_id = old.trade_id
                             /\ new.symbol = old.symbol
                             /\ new.entry_price = old.entry_price
                             /\ new.stop_loss = old.stop_loss]_vars

\* In January a trade logged in December has been closed, by its id, in the
\* December partition, next to a record of January that is still OPEN.
C23_Witness ==
    /\ last_exit.called
    /\ Calendar(last_exit.now).month = 1
    /\ last_exit.now >= 1
    /\ \E i \in 1..Len(ledger[last_exit.now - 1]) :
          /\ ledger[last_exit.now - 1][i].trade_id = last_exit.trade_id
          /\ ledger[last_exit.now - 1][i].status = "CLOSED"
          /\ ledger[last_exit.now - 1][i].exit_month = last_exit.now
          /\ ledger[last_exit.now - 1][i].exit_price = 90
    /\ \E i \in 1..Len(ledger[last_exit.now]) :
          ledger[last_exit.now][i].status = "OPEN"

\* The OPEN records of partition m that a call e matches.
OpenHits(led, m, e) ==
    {i \in ExitHits(led, m, e) : led[m][i].status = "OPEN"}

\* C24: when no matching OPEN record exists in the current or the preceding
\* partition, log_trade_exit returns 0 and modifies no partition and no
\* summary.
C24_UnmatchedExitChangesNothing ==
    [][ExitStep
         => LET e == last_exit'
            IN  (/\ OpenHits(ledger, e.now, e) = {}
                 /\ e.now >= 1 => OpenHits(ledger, e.now - 1, e) = {})
                    => /\ e.r_value = 0
                       /\ ledger' = ledger
                       /\ summary' = summary]_vars

\* All records of the ledger.
AllRecords ==
    UNION {{ledger[m][i] : i \in 1..Len(ledger[m])} : m \in Months}

\* C25: on close the R-multiple is (exit_price - entry_price) /
\* (entry_price - stop_loss), to two decimals, when entry_price - stop_loss
\* > 0 and 0 otherwise, from the entry price and the stop of the ledger
\* record; entry 100, stop 95: exit 110 gives 2.0, exit 90 gives -2.0.
C25_RMultipleOnClose ==
    \A t \in AllRecords :
        t.status = "CLOSED"
            => LET pnl == t.exit_price - t.entry_price
                   risk == t.entry_price - t.stop_loss
                   err == 100 * pnl - t.r_value * risk
               IN  /\ t.pnl_per_share = pnl
                   /\ risk > 0 => 2 * err <= risk /\ -2 * err <= risk
                   /\ risk <= 0 => t.r_value = 0
                   /\ (t.entry_price = 100 /\ t.stop_loss = 95 /\ t.exit_price = 110)
                         => t.r_value = 200
                   /\ (t.entry_price = 100 /\ t.stop_loss = 95 /\ t.exit_price = 90)
                         => t.r_value = -200

\* The trade with entry 100 and stop 95 has been closed at 110: R is 2.0.
C25_Witness ==
    /\ last_exit.called
    /\ last_exit.r_value = 200
    /\ \E t \in AllRecords :
          /\ t.status = "CLOSED" /\ t.entry_price = 100 /\ t.stop_loss = 95
          /\ t.exit_price = 110 /\ t.r_value = 200

\* C26: every trade record is either OPEN with exit timestamp, exit price,
\* exit reason, bars held, P&L and R-value all null, or CLOSED with all of
\* them populated.
C26_ExitFieldsAllOrNothing ==
    \A t \in AllRecords :
        \/ /\ t.status = "OPEN"
           /\ t.exit_month = None /\ t.exit_price = None
           /\ t.exit_reason = "None" /\ t.bars_held = None
           /\ t.pnl_per_share = None /\ t.pnl_total = None /\ t.r_value = None
        \/ /\ t.status = "CLOSED"
           /\ t.exit_month # None /\ t.exit_price # None
           /\ t.exit_reason # "None" /\ t.bars_held # None
           /\ t.pnl_per_share # None /\ t.pnl_total # None /\ t.r_value # None

\* The ledger holds an OPEN record next to the record a call has just closed.
C26_Witness ==
    /\ last_exit.called
    /\ \E t \in AllRecords : t.status = "OPEN"
    /\ \E t \in AllRecords :
          /\ t.status = "CLOSED"
          /\ t.trade_id = last_exit.trade_id
          /\ t.exit_month = last_exit.now
          /\ t.exit_price = last_exit.exit_price

\* The R-values of the CLOSED records of a partition, 0 for the others.
ClosedR(trades) ==
    [i \in 1..Len(trades) |->
        IF trades[i].status = "CLOSED" THEN trades[i].r_value ELSE 0]

\* C27: update_monthly_summary is a pure, idempotent function of the
\* ledger: a run on a partition that is as the run before read it writes
\* the same summary, and the aggregates come from the CLOSED records alone
\* (closed count = wins + losses, total R = the sum of their R-values,
\* expectancy = total R / closed count).
C27_SummaryIsFunctionOfLedger ==
    [][report'.runs = report.runs + 1
         => LET s == report'.summary
                closed == {i \in 1..Len(ledger[month]) :
                              ledger[month][i].status = "CLOSED"}
            IN  /\ (report.runs >= 1 /\ report.trades = ledger[month])
                      => s = report.summary
                /\ s.trades_closed = Cardinality(closed)
                /\ s.trades_closed = s.wins + s.losses
                /\ s.total_r = SumSeq(ClosedR(ledger[month]))
                /\ s.trades_closed > 0
                      => LET err == 10 * s.total_r - s.expectancy * s.trades_closed
                         IN  2 * err <= s.trades_closed /\ -2 * err <= s.trades_closed]_vars

\* The errors kite_retry is to retry: timeouts, connection errors,
\* NetworkException and broker errors with a 5xx code.
Transient(e) ==
    \/ e.kind = "Timeout"
    \/ e.kind = "ConnectionError"
    \/ e.kind = "NetworkException"
    \/ e.kind = "KiteException" /\ e.code \div 100 = 5

\* C28: kite_retry(func, max_retries = n) calls func at most n + 1 times,
\* returns the result of the first call that succeeds, and when every
\* attempt fails with a retryable error raises the error of the last attempt.
C28_AtMostNPlusOneThenOriginalError ==
    /\ Len(retry.calls) <= retry.max_retries + 1
    /\ retry.pc = "returned"
          => /\ retry.calls[Len(retry.calls)].kind = "ok"
             /\ \A i \in 1..(Len(retry.calls) - 1) : retry.calls[i].kind # "ok"
    /\ (retry.pc = "raised" /\ \A i \in 1..Len(retry.calls) : Transient(retry.calls[i]))
          => /\ Len(retry.calls) = retry.max_retries + 1
             /\ retry.raised = retry.calls[Len(retry.calls)]

\* C29: an error that is not a timeout, a connection error, a
\* NetworkException or a 5xx broker error is never retried: it is raised
\* again by the attempt that met it, and every attempt that was followed by
\* another one failed with an error of those kinds.
C29_BusinessErrorsNotRetried ==
    \A i \in 1..Len(retry.calls) :
        LET e == retry.calls[i]
        IN  /\ (e.kind # "ok" /\ ~Transient(e))
                  => /\ i = Len(retry.calls)
                     /\ retry.pc = "raised"
                     /\ retry.raised = e
            /\ i < Len(retry.calls) => Transient(e)

\* With retries allowed, the first call of func met a 4xx broker error and
\* kite_retry raised it after that one call.
C29_Witness ==
    /\ retry.pc = "raised"
    /\ retry.max_retries >= 1
    /\ Len(retry.calls) = 1
    /\ retry.calls[1] = [kind |-> "KiteException", code |-> 403]
    /\ retry.raised = retry.calls[1]
    /\ retry.slept = 0

\* C30: a transient network error of a broker fetch (holdings, positions,
\* quotes, margins) made by the order gateway or the position monitor is
\* retried: when the broker fails once and then answers, the fetch is made
\* again, the entry batch is not aborted and the tick does not return
\* without evaluating its positions.
C30_TransientFailureIsRetried ==
    (broker.fetched /\ broker.failures >= 1)
        => /\ broker.attempts >= 2
           /\ broker.failures = 1
                 => batchResult # "equity_error" /\ tickResult # "fetch_error"

\* The entry order of batch iteration e was placed: the broker reported it
\* COMPLETE, or accepted it and its status could not be queried.
Placed(e) ==
    \/ Completed(e)
    \/ e.submitted /\ (e.st1 = "ERR" \/ (e.st1 = "OPEN" /\ e.st2 = "ERR"))

\* C36: within one batch the available margin never grows and goes down by
\* exactly the required capital of each entry placed, and by nothing for a
\* candidate that was not placed, so that the capital of the entries placed
\* in the batch stays within the margin the batch started with.
C36_MarginBooksEveryPlacedEntry ==
    [][(pc = "batch" /\ batch_i' = batch_i + 1)
          => /\ available_margin' <= available_margin
             /\ available_margin' >= 0
             /\ available_margin - available_margin' =
                   IF Placed(last_entry') THEN last_entry'.required ELSE 0]_vars

\* C37: between ticks every entry of open_positions.json carries a trade id
\* for which the ledger holds a record with status OPEN.
C37_CachedTradeIsOpenInLedger ==
    (pc = "idle" /\ cacheFile.ok)
        => \A i \in 1..Len(cacheFile.data) :
              \E t \in AllRecords :
                  /\ t.trade_id = cacheFile.data[i].trade_id
                  /\ t.status = "OPEN"

\* C38: every ledger record and every cache entry made by
\* process_entry_orders has stop_loss < entry_price < target_price and
\* quantity > 0, with target_price = entry_price + 3 * (entry_price -
\* stop_loss), and the cache entry carries the target of its ledger record.
C38_LevelsOrderedTargetThreeR ==
    /\ \A t \in AllRecords :
          /\ t.stop_loss < t.entry_price /\ t.entry_price < t.target_price
          /\ t.quantity > 0
          /\ t.target_price = t.entry_price + 3 * (t.entry_price - t.stop_loss)
    /\ cacheFile.ok
          => \A i \in 1..Len(cacheFile.data) :
                LET c == cacheFile.data[i]
                IN  /\ c.stop_loss < c.entry_price /\ c.entry_price < c.target_price
                    /\ c.quantity > 0
                    /\ c.target_price = c.entry_price + 3 * (c.entry_price - c.stop_loss)
                    /\ \A t \in AllRecords :
                          t.trade_id = c.trade_id => t.target_price = c.target_price

\* The batch has just entered a trade: its record is in the ledger and its
\* entry in the cache, both with the target three risks above the entry.
C38_Witness ==
    /\ pc = "batch"
    /\ last_entry.outcome = "entered"
    /\ cacheFile.ok
    /\ \E t \in AllRecords :
          /\ t.trade_id = last_entry.trade_id
          /\ t.entry_price = 6 /\ t.stop_loss = 5 /\ t.target_price = 9
          /\ t.quantity = 2
    /\ \E i \in 1..Len(cacheFile.data) :
          /\ cacheFile.data[i].trade_id = last_entry.trade_id
          /\ cacheFile.data[i].target_price = 9

\* monitor_positions() is called on a cache with positions and the broker
\* fails a fetch of holdings, day positions or quotes.
TickFetchFails ==
    /\ pc = "idle"
    /\ month' = month
    /\ batchResult' = "none"
    /\ last_tick' = NoTick
    /\ tickResult' \in {"fetch_error", "running"}
    /\ broker'.fetched /\ broker'.failures >= 1

\* C40: when a fetch of holdings, day positions or quotes fails in a tick,
\* monitor_positions returns without submitting an order and leaves
\* open_positions.json and the ledger as they were.
C40_FailedFetchChangesNothing ==
    [][TickFetchFails
          => /\ pc' = "idle"
             /\ tickResult' = "fetch_error"
             /\ cacheFile' = cacheFile
             /\ ledger' = ledger
             /\ summary' = summary
             /\ sold' = sold
             /\ buy_orders' = buy_orders]_vars

\* A tick over a cache with a position has returned on a failed fetch; no
\* sell order has been submitted and the position is still cached.
C40_Witness ==
    /\ tickResult = "fetch_error"
    /\ pc = "idle"
    /\ broker.fetched /\ broker.failures >= 1
    /\ cacheFile.ok /\ cacheFile.data # <<>>
    /\ sold = {}

\* ------------------------------- place_entry_order / place_exit_order
\* What the library functions of the other sections and the trading state
\* keep while an order function, a notification or the main loop runs.
RuntimeOnly ==
    UNCHANGED <<cacheFile, ledger, summary, monthlyLog, month, pc, batchLocals,
                tickLocals, batchResult, last_entry, tickResult, last_tick,
                history, gate, jsonStore, broker, sizing, last_exit, report,
                retry>>

OrderFunctions == {"place_entry_order", "place_exit_order"}

\* What kite.order_history(order_id)[-1]['status'] gives, "ERR" when the
\* call or the code after it raises.
OrderStatuses == {"COMPLETE", "REJECTED", "OPEN", "ERR"}

\* kite.place_order(...) is called once.  When it raises, the outer except
\* returns (None, None) / None; otherwise time.sleep(2) and the first check.
order_place(c, accepted) ==
    IF accepted
    THEN [c EXCEPT !.placed = @ + 1, !.slept = @ + 2, !.pc = "check1"]
    ELSE [c EXCEPT !.placed = @ + 1, !.pc = "done", !.result = "None"]

\* The order is filled: place_entry_order logs the trade and returns the
\* ids (log_trade_entry raising is caught by the outer except, which returns
\* (None, None)); place_exit_order returns average_price.
order_filled(c, logged) ==
    [c EXCEPT !.pc = "done",
              !.result = IF c.fn = "place_exit_order" THEN "price"
                         ELSE IF logged THEN "ids" ELSE "None"]

\* A status check that keeps polling while the order is not terminal.
order_check_polling(c, st, logged) ==
    LET q == [c EXCEPT !.order_history = @ + 1, !.status = st]
    IN  IF st = "COMPLETE" THEN order_filled(q, logged)
        ELSE IF st = "REJECTED" THEN [q EXCEPT !.pc = "done", !.result = "None"]
        ELSE IF st = "ERR"
             THEN IF c.fn = "place_entry_order" THEN order_filled(q, logged)
                  ELSE [q EXCEPT !.pc = "fallback"]
        ELSE [q EXCEPT !.slept = @ + 3, !.pc = "check2"]

\* One status check: kite.order_history(order_id), the last entry's status.
\* COMPLETE: filled.  REJECTED: None.  Anything else at the first check:
\* time.sleep(3) and the second check; at the second check: None.  When the
\* check raises, place_entry_order logs the trade at the signal's price and
\* returns the ids, place_exit_order goes to its fallback.
order_check(c, st, logged) ==
    LET q == [c EXCEPT !.order_history = @ + 1, !.status = st]
    IN  IF st = "COMPLETE" THEN order_filled(q, logged)
        ELSE IF st = "REJECTED" THEN [q EXCEPT !.pc = "done", !.result = "None"]
        ELSE IF st = "ERR"
             THEN IF c.fn = "place_entry_order" THEN order_filled(q, logged)
                  ELSE [q EXCEPT !.pc = "fallback"]
        ELSE IF c.pc = "check1"
             THEN [q EXCEPT !.slept = @ + 3, !.pc = "check2"]
             ELSE [q EXCEPT !.pc = "done", !.result = "None"]

\* How the fallback of place_exit_order can go: the order is in kite.orders()
\* as COMPLETE; it is not, and kite.quote gives the LTP; kite.orders() raises;
\* kite.quote raises.
Fallbacks == {"order_book", "ltp", "orders_raise", "quote_raise"}

\* The except-branch of place_exit_order's status check: one kite.orders()
\* call, then, if the order was not found COMPLETE, one kite.quote call.
order_fallback(c, fb) ==
    IF fb = "order_book"
    THEN [c EXCEPT !.orders = @ + 1, !.pc = "done", !.result = "price"]
    ELSE IF fb = "orders_raise"
    THEN [c EXCEPT !.orders = @ + 1, !.pc = "done", !.result = "None"]
    ELSE IF fb = "ltp"
    THEN [c EXCEPT !.orders = @ + 1, !.quote = @ + 1, !.pc = "done",
                   !.result = "price"]
    ELSE [c EXCEPT !.orders = @ + 1, !.quote = @ + 1, !.pc = "done",
                   !.result = "None"]

\* place_entry_order(kite, symbol, entry_price, stop_loss, quantity) or
\* place_exit_order(symbol, quantity, reason) is called.
OrderCall ==
    /\ order_call.pc \in {"idle", "done"}
    /\ \E fn \in OrderFunctions, s \in Symbols, q \in 1..MaxQty :
          order_call' = [NoOrderCall EXCEPT !.fn = fn, !.pc = "place",
                                            !.symbol = s, !.quantity = q]
    /\ RuntimeOnly
    /\ UNCHANGED <<notice, loop>>

\* kite.place_order is called.
OrderPlace ==
    /\ order_call.pc = "place"
    /\ \E accepted \in BOOLEAN : order_call' = order_place(order_call, accepted)
    /\ RuntimeOnly
    /\ UNCHANGED <<notice, loop>>

\* kite.order_history is called after the wait.
OrderCheck ==
    /\ order_call.pc \in {"check1", "check2"}
    /\ \E st \in OrderStatuses, logged \in BOOLEAN :
          order_call' = order_check(order_call, st, logged)
    /\ RuntimeOnly
    /\ UNCHANGED <<notice, loop>>

\* The fallback of place_exit_order runs.
OrderFallback ==
    /\ order_call.pc = "fallback"
    /\ \E fb \in Fallbacks : order_call' = order_fallback(order_call, fb)
    /\ RuntimeOnly
    /\ UNCHANGED <<notice, loop>>

InitOrder == Started(Committed(<<>>), NoLedger, 0) /\ Stores(<<>>, NoFiles)

NextOrder ==
    \/ OrderCall
    \/ OrderPlace
    \/ OrderCheck
    \/ OrderFallback

SpecOrder == InitOrder /\ [][NextOrder]_vars

\* The steps an order function can still take from a position.
OrderRank(p) ==
    IF p = "place" THEN 4
    ELSE IF p = "check1" THEN 3
    ELSE IF p = "check2" THEN 2
    ELSE IF p = "fallback" THEN 1
    ELSE 0

Notifications ==
    {"notify_startup", "notify_order_placed", "notify_order_skipped",
     "notify_position_exit", "notify_market_close", "notify_bot_stopped"}

\* How requests.post(url, json = payload, timeout = 10) can end: a response
\* with a status code, or an exception.
Deliveries ==
    [kind : {"response"}, status_code : {200, 429, 500}]
        \cup [kind : {"Timeout", "ConnectionError"},
              status_code : {0}]

Delivered(d) == d.kind = "response" /\ d.status_code = 200

\* send_telegram without its try/except and with the status raised.
send_telegram_unguarded(message, d) ==
    [called |-> TRUE, message |-> message, outcome |-> d,
     raised |-> ~Delivered(d), returned |-> None, printed |-> FALSE]

\* send_telegram(message): the post is made inside try/except Exception; a
\* status other than 200 and an exception are printed; nothing is returned.
send_telegram(message, d) ==
    [called |-> TRUE, message |-> message, outcome |-> d, raised |-> FALSE,
     returned |-> None, printed |-> ~Delivered(d)]

\* The notifications the running handler sends: process_entry_orders the
\* placed and the skipped order, monitor_positions the exit, main() the
\* others.
NotificationsAt(p) ==
    IF p = "batch" THEN {"notify_order_placed", "notify_order_skipped"}
    ELSE IF p = "tick" THEN {"notify_position_exit"}
    ELSE Notifications \ {"notify_order_placed", "notify_order_skipped",
                          "notify_position_exit"}

\* One notification is sent by the running handler.  The callers wrap no
\* notify_* call in a try block of their own: an exception leaving
\* send_telegram would end process_entry_orders or the tick where it stands.
Notify ==
    /\ \E message \in NotificationsAt(pc), d \in Deliveries :
          /\ notice' = send_telegram(message, d)
          /\ IF notice'.raised /\ pc = "batch"
             THEN pc' = "idle" /\ batchResult' = "aborted" /\ UNCHANGED tickResult
             ELSE IF notice'.raised /\ pc = "tick"
             THEN pc' = "idle" /\ tickResult' = "aborted" /\ UNCHANGED batchResult
             ELSE UNCHANGED <<pc, batchResult, tickResult>>
    /\ UNCHANGED <<cacheFile, ledger, summary, monthlyLog, month, batchLocals,
                   tickLocals, last_entry, last_tick, history, gate, jsonStore,
                   broker, sizing, last_exit, report, retry, order_call, loop>>

NextNotify ==
    \/ EntryStart
    \/ EntrySymbol
    \/ EntryEnd
    \/ Notify

\* First installation, as Init.
InitNotify == Started(Committed(<<>>), NoLedger, 0) /\ Stores(<<>>, NoFiles)

SpecNotify == InitNotify /\ [][NextNotify]_vars

\* C32: a notification that is not delivered (a status other than 200, or an
\* exception of requests.post) is not raised to the caller and returns what a
\* delivered one returns; the step writes neither the cache nor the ledger
\* nor its summaries, submits no order, and leaves the running handler, its
\* loop position and its margin where they were.
C32_UndeliveredNotificationIsSwallowed ==
    [][(notice' # notice /\ ~Delivered(notice'.outcome))
          => /\ ~notice'.raised
             /\ notice'.returned = None
             /\ notice'.printed
             /\ UNCHANGED <<disk, history, pc, batchLocals, batchResult,
                            tickResult>>]_vars

\* The notification of a placed order timed out inside the entry loop.
C32_Witness ==
    /\ notice.called
    /\ notice.message = "notify_order_placed"
    /\ notice.outcome.kind = "Timeout"
    /\ ~notice.raised
    /\ pc = "batch"
    /\ last_entry.outcome = "entered"

\* -------------------------------------------------------------- main()
\* A time of day in seconds, as dt_time(h, m, s).
dt_time(h, m, sec) == h * 3600 + m * 60 + sec

SCANNER_TIMES ==
    <<dt_time(10, 16, 0), dt_time(11, 16, 0), dt_time(12, 16, 0),
      dt_time(13, 16, 0), dt_time(14, 16, 0), dt_time(15, 16, 0)>>

ENTRY_ORDER_TIMES ==
    <<dt_time(11, 15, 0), dt_time(12, 15, 0), dt_time(13, 15, 0),
      dt_time(14, 15, 0), dt_time(15, 15, 0), dt_time(15, 29, 55)>>

MARKET_CLOSE == dt_time(15, 30, 0)

POSITION_CHECK_INTERVAL == 1

\* The times of day at which main() is started.
StartTimes ==
    {dt_time(9, 0, 0), dt_time(11, 15, 0), dt_time(11, 16, 1),
     dt_time(15, 29, 55)}

\* The instants at which the loop can sample the clock: the start, every
\* scheduled time, the second after every scanner time, and market close.
\* An instant stands for the time up to the next one.
Instants ==
    StartTimes \cup SeqToSet(ENTRY_ORDER_TIMES) \cup SeqToSet(SCANNER_TIMES)
        \cup {t + 1 : t \in SeqToSet(SCANNER_TIMES)} \cup {MARKET_CLOSE}

\* The scheduled times that start_time has passed: `if start_time > t`.
Passed(times, start_time) == {t \in SeqToSet(times) : start_time > t}

\* subprocess.Popen without a wait: the caller goes on at once.
run_script_detached(l) == TRUE

\* run_script(script_name): subprocess.run(..., check = True) returns, or
\* raises CalledProcessError, only when the child process has exited.
run_script_returned(l) == l.child = "none"

\* The script is started as a child process and run_script waits for its
\* exit status.
Launch(l, script) ==
    [l EXCEPT !.pc = "wait", !.child = script, !.launched = script,
              !.child_ok = TRUE]

\* monitor_positions() called outside a try block.
monitor_unguarded(outcome) == IF outcome = "raised" THEN "crashed" ELSE "top"

\* try: monitor_positions() except Exception: print; the loop goes on to
\* last_position_check = current_time, the status update and the sleep.
monitor_guard(outcome) == "top"

\* entry_order_completed.add(entry_time); the for loop goes to the next time.
EntryCompleted(l) ==
    [l EXCEPT !.pc = "entry",
              !.entry_order_completed = @ \cup {ENTRY_ORDER_TIMES[l.entry_i]},
              !.entry_i = @ + 1]

\* What the loop actions leave alone.
MainOnly ==
    /\ RuntimeOnly
    /\ UNCHANGED <<order_call, notice>>

\* main() up to the loop: the scheduled times already passed are marked
\* completed; if a scanner time has passed the scanner is run once.
MainStart ==
    /\ loop.pc = "off"
    /\ \E start_time \in StartTimes :
          LET l == [NoLoop EXCEPT
                       !.pc = "top", !.start_time = start_time,
                       !.now = start_time,
                       !.scanner_completed = Passed(SCANNER_TIMES, start_time),
                       !.entry_order_completed =
                           Passed(ENTRY_ORDER_TIMES, start_time),
                       !.last_position_check = start_time]
          IN  loop' = IF Passed(SCANNER_TIMES, start_time) # {}
                      THEN [Launch(l, "reclaim_scanner.py")
                               EXCEPT !.launched = "startup_scanner"]
                      ELSE l
    /\ MainOnly

\* Top of the loop: the clock is sampled; at or after MARKET_CLOSE the loop
\* ends.  late: the sample passed over an instant.
LoopTop ==
    /\ loop.pc = "top"
    /\ \E t \in Instants :
          /\ t >= loop.now
          /\ loop' = [loop EXCEPT
                         !.now = t,
                         !.late = @ \/ \E i \in Instants : loop.now < i /\ i < t,
                         !.pc = IF t >= MARKET_CLOSE THEN "closed" ELSE "scan",
                         !.scan_i = 1]
    /\ MainOnly

\* for scan_time in SCANNER_TIMES: a time not completed and reached runs the
\* scanner; after the last time the loop goes on to the monitor.
ScanNext ==
    /\ loop.pc = "scan"
    /\ loop' =
          IF loop.scan_i > Len(SCANNER_TIMES)
          THEN [loop EXCEPT !.pc = "monitor"]
          ELSE IF /\ SCANNER_TIMES[loop.scan_i] \notin loop.scanner_completed
                  /\ loop.now >= SCANNER_TIMES[loop.scan_i]
               THEN Launch(loop, "reclaim_scanner.py")
               ELSE [loop EXCEPT !.scan_i = @ + 1]
    /\ MainOnly

\* The child process exits, with status 0 or not.
ChildExit ==
    /\ loop.child # "none"
    /\ \E ok \in BOOLEAN : loop' = [loop EXCEPT !.child = "none", !.child_ok = ok]
    /\ MainOnly

\* run_script returns to the loop.  After the scanner: scanner_completed.add
\* and, inside the same if-block, the for loop over ENTRY_ORDER_TIMES.  After
\* entry_checker.py: order_manager.py is run if the checker succeeded and
\* entry_signals.json holds signals.  After order_manager.py: the entry time
\* is completed.
ScriptReturn ==
    /\ loop.pc = "wait"
    /\ run_script_returned(loop)
    /\ \/ /\ loop.launched = "startup_scanner"
          /\ loop' = [loop EXCEPT !.pc = "top", !.launched = "none"]
       \/ /\ loop.launched = "reclaim_scanner.py"
          /\ loop' = [loop EXCEPT
                         !.pc = "entry", !.launched = "none", !.entry_i = 1,
                         !.scanner_completed = @ \cup {SCANNER_TIMES[loop.scan_i]}]
       \/ /\ loop.launched = "entry_checker.py"
          /\ \E has_signals \in BOOLEAN :
                loop' = IF loop.child_ok /\ has_signals
                        THEN [Launch(loop, "order_manager.py") EXCEPT
                                 !.order_runs =
                                     Append(@, ENTRY_ORDER_TIMES[loop.entry_i])]
                        ELSE [EntryCompleted(loop) EXCEPT !.launched = "none"]
       \/ /\ loop.launched = "order_manager.py"
          /\ loop' = [EntryCompleted(loop) EXCEPT !.launched = "none"]
    /\ MainOnly

\* for entry_time in ENTRY_ORDER_TIMES, in the body of the scanner's if: a
\* time not completed and reached is skipped when now is more than 60 s past
\* it, else entry_checker.py is run; after the last time the scanner's for
\* loop goes on.
EntryNext ==
    /\ loop.pc = "entry"
    /\ loop' =
          IF loop.entry_i > Len(ENTRY_ORDER_TIMES)
          THEN [loop EXCEPT !.pc = "scan", !.scan_i = @ + 1, !.entry_i = 0]
          ELSE LET entry_time == ENTRY_ORDER_TIMES[loop.entry_i]
                   seconds_past == loop.now - entry_time
               IN  IF /\ entry_time \notin loop.entry_order_completed
                      /\ loop.now >= entry_time
                   THEN IF seconds_past > 60
                        THEN EntryCompleted(loop)
                        ELSE [Launch(loop, "entry_checker.py") EXCEPT
                                 !.checker_runs = Append(@, entry_time)]
                   ELSE [loop EXCEPT !.entry_i = @ + 1]
    /\ MainOnly

\* if current_time - last_position_check >= POSITION_CHECK_INTERVAL:
\* monitor_positions() is called; else the loop sleeps and starts over.
MonitorStep ==
    /\ loop.pc = "monitor"
    /\ loop' =
          IF loop.now - loop.last_position_check >= POSITION_CHECK_INTERVAL
          THEN [loop EXCEPT !.pc = "monitoring", !.monitoring = TRUE,
                            !.recovered = loop.last_monitor = "raised"]
          ELSE [loop EXCEPT !.pc = "top"]
    /\ MainOnly

\* monitor_positions() returns or raises; last_position_check = current_time.
MonitorReturn ==
    /\ loop.pc = "monitoring"
    /\ \E outcome \in {"returned", "raised"} :
          loop' = [loop EXCEPT !.pc = monitor_guard(outcome),
                               !.monitoring = FALSE,
                               !.last_monitor = outcome,
                               !.last_position_check = loop.now]
    /\ MainOnly

InitMain == Started(Committed(<<>>), NoLedger, 0) /\ Stores(<<>>, NoFiles)

NextMain ==
    \/ MainStart
    \/ LoopTop
    \/ ScanNext
    \/ ChildExit
    \/ ScriptReturn
    \/ EntryNext
    \/ MonitorStep
    \/ MonitorReturn

SpecMain == InitMain /\ [][NextMain]_vars

\* C31: an exception raised by monitor_positions() does not end the loop: the
\* loop never crashes, a call that raised is followed by the rest of the
\* iteration like one that returned, and in every iteration before market
\* close monitor_positions() is called exactly when at least
\* POSITION_CHECK_INTERVAL has passed since the last call.
C31_MonitorExceptionIsCaught ==
    /\ [](loop.pc # "crashed")
    /\ [][/\ (loop.pc = "monitoring" /\ loop'.last_monitor = "raised"
                 => /\ loop'.pc = "top"
                    /\ loop'.last_position_check = loop.now)
          /\ (loop.pc = "monitor"
                 => (loop'.monitoring
                        <=> loop.now - loop.last_position_check
                               >= POSITION_CHECK_INTERVAL))
          /\ (loop'.monitoring /\ ~loop.monitoring => loop.pc = "monitor")]_vars

\* monitor_positions() is running again after an earlier call raised.
C31_Witness ==
    /\ loop.monitoring
    /\ loop.recovered
    /\ loop.last_monitor = "raised"
    /\ loop.now < MARKET_CLOSE

\* C33: no script started by run_script is running while monitor_positions()
\* runs, and while a script runs the loop waits for it: the scanner, the
\* entry checker, the order manager and the monitor run one after another.
C33_OrdersAndMonitorNeverOverlap ==
    /\ ~(loop.monitoring /\ loop.child # "none")
    /\ (loop.child # "none" => loop.pc = "wait" /\ loop.launched # "none")
    /\ (loop.monitoring <=> loop.pc = "monitoring")

\* monitor_positions() runs in an iteration in which order_manager.py ran.
C33_Witness ==
    /\ loop.monitoring
    /\ loop.child = "none"
    /\ loop.order_runs # <<>>
    /\ loop.order_runs[Len(loop.order_runs)] + 60 = loop.now

\* The number of runs of a script for an entry time.
Runs(log, entry_time) == Cardinality({i \in DOMAIN log : log[i] = entry_time})

\* C35: when the loop, started before the first scheduled time, has ended at
\* market close having sampled the clock at every instant, every entry time
\* not passed at start-up has had the entry checker run for it exactly once.
C35_EachEntryTimeProcessedOnce ==
    (loop.pc = "closed" /\ ~loop.late /\ loop.start_time < SCANNER_TIMES[1])
        => \A i \in 1..Len(ENTRY_ORDER_TIMES) :
              ~(loop.start_time > ENTRY_ORDER_TIMES[i])
                  => Runs(loop.checker_runs, ENTRY_ORDER_TIMES[i]) = 1

\* ------------------------------------- the monitor under a fair schedule
\* open_positions.json and the ledger with positions opened in month 0, the
\* process running in the same or in a later month.
InitLive ==
    \E syms \in SignalOrders, now \in Months :
        /\ syms # <<>>
        /\ Len(syms) <= MaxTrades
        /\ \E qty \in [1..Len(syms) -> 1..MaxQty] :
              /\ StartedAt(OpenBook(syms, qty).file, OpenBook(syms, qty).led,
                           [m \in Months |-> NoSummary], Len(syms), now)
              /\ Stores(<<>>, NoFiles)

\* A tick starts: on an empty cache it returns at once; else the broker
\* fetches succeed and the broker reports every cached position as held.
LiveTickStart ==
    /\ TickStart
    /\ tickResult' \in {"running", "empty"}
    /\ \A i \in 1..Len(cache') : current_holdings'[cache'[i].symbol] > 0

\* One iteration of the monitor loop for a position the broker holds, whose
\* live price is at or beyond its stop or target, with a SELL order that the
\* broker accepts and completes, and a ledger that can be read and written.
LiveTickSymbol ==
    /\ TickSymbol
    /\ pc' = "tick"
    /\ last_tick'.held
    /\ last_tick'.le_stop \/ last_tick'.ge_target
    /\ last_tick'.submitted
    /\ Truthy(last_tick'.exit_price)
    /\ ~last_tick'.unverified

\* The tick ends and the cache is saved.
LiveTickEnd ==
    /\ TickEnd
    /\ tickResult' = "done"

NextLive ==
    \/ LiveTickStart
    \/ LiveTickSymbol
    \/ LiveTickEnd

\* main() calls monitor_positions() again and again (once per
\* POSITION_CHECK_INTERVAL), and each call runs to its end: a tick that can
\* start does start, a loop iteration that can run does run, and a tick at the
\* end of its loop does return.
SpecLive ==
    /\ InitLive
    /\ [][NextLive]_vars
    /\ WF_vars(TickStart)
    /\ WF_vars(TickSymbol)
    /\ WF_vars(TickEnd)

CachedOpen(s) == cacheFile.ok /\ s \in CacheSymbols(cacheFile.data)

Exited(s) ==
    /\ cacheFile.ok
    /\ s \notin CacheSymbols(cacheFile.data)
    /\ \A t \in AllRecords : t.symbol = s => t.status = "CLOSED"

\* C34: with ticks scheduled fairly, broker fetches that succeed, a price that
\* stays at or beyond the stop or the target and a SELL order that the broker
\* accepts and completes, every cached position eventually is out of the
\* cache with its ledger record CLOSED.
C34_BreachedPositionEventuallyClosed ==
    \A s \in Symbols : CachedOpen(s) ~> Exited(s)

====
